---- MODULE Spec2Model ----
(***************************************************************************)
(* Model of the expense analyzer's backend: the document pipeline          *)
(* (backend/process_document.py: the S3-event batch handler, the four      *)
(* extractors, the assembler and the validator), the upload API            *)
(* (backend/upload_api.py) and the expense listing                         *)
(* (backend/get_expenses.py).                                              *)
(*                                                                         *)
(* A Python str is a sequence of one-character strings, so that the        *)
(* regular expressions and the strptime/strftime conversions of the code   *)
(* are computed character by character.                                    *)
(***************************************************************************)
EXTENDS Integers, Sequences, FiniteSets, TLC

VARIABLES
    event,            \* the S3 event handed to lambda_handler
    env,              \* what the collaborators answer for each record of the event
    idx,              \* number of records of event['Records'] already iterated
    key,              \* lambda_handler's local variable `key` (Unbound until first assigned)
    table_ops,        \* every call made on the DynamoDB table, in order
    s3_reads,         \* index of each record for which s3.get_object was called
    ocr_calls,        \* index of each record for which textract was called
    outcomes,         \* per iterated record: how its loop iteration ended
    processed_count,  \* lambda_handler's local counter
    response,         \* statusCode returned by lambda_handler (0 while running)
    uuid_next,        \* number of uuid4 values drawn so far
    today,            \* the current day, as datetime.now() gives it
    pads_year,        \* whether the platform's strftime('%Y') zero-pads years below 1000
    text,             \* unit calls: the text argument
    s3_key,           \* unit calls: the s3_key argument
    expense_data,     \* unit calls: the record under test
    verdict,          \* unit calls: what validate_expense_data returned
    phase,            \* unit calls: position of the calling test
    cat_log,          \* unit calls: the categorize_expense calls made so far
    clock,            \* upload API: the wall clock, in seconds past the start
    requests,         \* upload API: the requests received
    uploads,          \* upload API: per request, how far its invocation has got
    put_object_calls, \* upload API: every s3_client.put_object call, in order
    scan_answer,      \* expense listing: what table.scan() answers
    listing           \* expense listing: what get_expenses.lambda_handler returned

vars == <<event, env, idx, key, table_ops, s3_reads, ocr_calls, outcomes,
          processed_count, response, uuid_next, today, pads_year,
          text, s3_key, expense_data, verdict, phase, cat_log,
          clock, requests, uploads, put_object_calls, scan_answer, listing>>

----------------------------------------------------------------------------
(* Characters and strings *)

DIGITS == <<"0","1","2","3","4","5","6","7","8","9">>
UPPER == <<"A","B","C","D","E","F","G","H","I","J","K","L","M","N","O","P","Q","R","S","T","U","V","W","X","Y","Z">>
LOWER == <<"a","b","c","d","e","f","g","h","i","j","k","l","m","n","o","p","q","r","s","t","u","v","w","x","y","z">>

IsDigit(c) == \E d \in 1..10 : DIGITS[d] = c

DigitVal(c) == (CHOOSE d \in 1..10 : DIGITS[d] = c) - 1

\* \s of Python's re for the characters of the model, and str.strip()'s whitespace
IsSpace(c) == c \in {" ", "\n", "\t", "\r"}

\* str.lower() on one character
LowerChar(c) ==
    IF \E u \in 1..26 : UPPER[u] = c
    THEN LOWER[CHOOSE u \in 1..26 : UPPER[u] = c]
    ELSE c

\* str.lower()
lower(s) == [i \in 1..Len(s) |-> LowerChar(s[i])]

\* least element of a non-empty set of integers
MinOf(S) == CHOOSE x \in S : \A y \in S : x <= y

\* s[i] or "" past either end
At(s, i) == IF i >= 1 /\ i <= Len(s) THEN s[i] ELSE ""

\* whether w occurs in s at position i
OccursAt(s, i, w) ==
    /\ i >= 1
    /\ i + Len(w) - 1 <= Len(s)
    /\ \A j \in 1..Len(w) : s[i + j - 1] = w[j]

\* whether w occurs in s at position i, ignoring case (re.IGNORECASE on a literal)
OccursAtIgnoreCase(s, i, w) ==
    /\ i >= 1
    /\ i + Len(w) - 1 <= Len(s)
    /\ \A j \in 1..Len(w) : LowerChar(s[i + j - 1]) = LowerChar(w[j])

\* Python's `w in s`
Contains(s, w) == \E i \in 1..(Len(s) - Len(w) + 1) : OccursAt(s, i, w)

\* first position >= i of s whose character is not a digit (Len(s)+1 when none)
DigitRunEnd(s, i) ==
    IF \E j \in i..Len(s) : ~IsDigit(s[j])
    THEN CHOOSE j \in i..Len(s) : ~IsDigit(s[j]) /\ \A k \in i..(j-1) : IsDigit(s[k])
    ELSE Len(s) + 1

\* first position >= i of s that is neither ':' nor whitespace: the end of [:\s]*
LabelGapEnd(s, i) ==
    IF \E j \in i..Len(s) : ~(s[j] = ":" \/ IsSpace(s[j]))
    THEN CHOOSE j \in i..Len(s) :
            /\ ~(s[j] = ":" \/ IsSpace(s[j]))
            /\ \A k \in i..(j-1) : s[k] = ":" \/ IsSpace(s[k])
    ELSE Len(s) + 1

\* int() of a string of digits
RECURSIVE IntOf(_)
IntOf(ds) == IF ds = <<>> THEN 0 ELSE 10 * IntOf(SubSeq(ds, 1, Len(ds) - 1)) + DigitVal(ds[Len(ds)])

\* str(n) for n >= 0
RECURSIVE StrOf(_)
StrOf(n) == IF n < 10 THEN <<DIGITS[n + 1]>> ELSE StrOf(n \div 10) \o <<DIGITS[(n % 10) + 1]>>

\* the digits of n, zero-filled on the left to at least w characters
RECURSIVE ZeroFill(_, _)
ZeroFill(ds, w) == IF Len(ds) >= w THEN ds ELSE ZeroFill(<<"0">> \o ds, w)

\* str.strip()
RECURSIVE strip(_)
strip(s) ==
    IF s = <<>> THEN s
    ELSE IF IsSpace(s[1]) THEN strip(Tail(s))
    ELSE IF IsSpace(s[Len(s)]) THEN strip(SubSeq(s, 1, Len(s) - 1))
    ELSE s

\* str.split(sep) for a one-character separator
RECURSIVE split(_, _)
split(s, sep) ==
    IF \E i \in 1..Len(s) : s[i] = sep
    THEN LET i == CHOOSE j \in 1..Len(s) : s[j] = sep /\ \A k \in 1..(j-1) : s[k] # sep
         IN  <<SubSeq(s, 1, i - 1)>> \o split(SubSeq(s, i + 1, Len(s)), sep)
    ELSE <<s>>

\* str.replace(a, b) for one-character a and b
replace(s, a, b) == [i \in 1..Len(s) |-> IF s[i] = a THEN b ELSE s[i]]

\* s[:n]
Prefix(s, n) == SubSeq(s, 1, IF Len(s) < n THEN Len(s) ELSE n)

----------------------------------------------------------------------------
(* Python values: every value carries its type, so that records holding    *)
(* values of different types can be compared.                              *)
(*   str      s = the characters                                           *)
(*   Decimal  n = the coefficient, e = the number of fractional digits     *)
(*   int      n = the value                                                *)

PyStr(s) == [t |-> "str", s |-> s, n |-> 0, e |-> 0]
PyDecimal(n, e) == [t |-> "Decimal", s |-> <<>>, n |-> n, e |-> e]
PyInt(n) == [t |-> "int", s |-> <<>>, n |-> n, e |-> 0]
PyNone == [t |-> "None", s |-> <<>>, n |-> 0, e |-> 0]

\* bool(v): the truth value `not v` negates
Truthy(v) ==
    CASE v.t = "str" -> v.s # <<>>
      [] v.t = "Decimal" -> v.n # 0
      [] v.t = "int" -> v.n # 0
      [] OTHER -> FALSE

\* Decimal(s) for a capture of the form digits or digits.dd
Decimal(s) ==
    IF \E i \in 1..Len(s) : s[i] = "."
    THEN LET p == CHOOSE i \in 1..Len(s) : s[i] = "."
         IN  PyDecimal(IntOf(SubSeq(s, 1, p - 1) \o SubSeq(s, p + 1, Len(s))), Len(s) - p)
    ELSE PyDecimal(IntOf(s), 0)

----------------------------------------------------------------------------
(* extract_expense_info: the amount rules *)

\* group 1 of [0-9]+(?:\.[0-9]{2})? matched at position j, <<>> when it does not match
NumberOptFraction(s, j) ==
    IF ~IsDigit(At(s, j)) THEN <<>>
    ELSE LET k == DigitRunEnd(s, j)
         IN  IF At(s, k) = "." /\ IsDigit(At(s, k + 1)) /\ IsDigit(At(s, k + 2))
             THEN SubSeq(s, j, k + 2)
             ELSE SubSeq(s, j, k - 1)

\* group 1 of [0-9]+\.[0-9]{2} matched at position j, <<>> when it does not match
NumberFraction(s, j) ==
    IF ~IsDigit(At(s, j)) THEN <<>>
    ELSE LET k == DigitRunEnd(s, j)
         IN  IF At(s, k) = "." /\ IsDigit(At(s, k + 1)) /\ IsDigit(At(s, k + 2))
             THEN SubSeq(s, j, k + 2)
             ELSE <<>>

\* group 1 of  label[:\s]*\$?([0-9]+(?:\.[0-9]{2})?)  matched at position i
LabeledAt(s, i, label) ==
    IF ~OccursAtIgnoreCase(s, i, label) THEN <<>>
    ELSE LET g == LabelGapEnd(s, i + Len(label))
             j == IF At(s, g) = "$" THEN g + 1 ELSE g
         IN  NumberOptFraction(s, j)

\* group 1 of  \$([0-9]+\.[0-9]{2})  matched at position i
DollarAt(s, i) == IF At(s, i) = "$" THEN NumberFraction(s, i + 1) ELSE <<>>

\* group 1 of  (?:^|\s)([0-9]+\.[0-9]{2})(?=\s|$)  matched at position i
BareAt(s, i) ==
    LET try(j) ==
            LET g == NumberFraction(s, j)
                after == j + Len(g)
            IN  IF g # <<>> /\ (after > Len(s) \/ IsSpace(s[after]))
                THEN g ELSE <<>>
    IN  IF i = 1 /\ try(1) # <<>> THEN try(1)
        ELSE IF IsSpace(At(s, i)) THEN try(i + 1)
        ELSE <<>>

\* amount_patterns[p] matched at position i
AmountPatternAt(p, s, i) ==
    CASE p = 1 -> LabeledAt(s, i, <<"T","o","t","a","l">>)
      [] p = 2 -> LabeledAt(s, i, <<"A","m","o","u","n","t">>)
      [] p = 3 -> DollarAt(s, i)
      [] p = 4 -> BareAt(s, i)

\* re.search(amount_patterns[p], text, re.IGNORECASE).group(1): the leftmost
\* match's capture, <<>> when the pattern matches nowhere
AmountSearch(p, s) ==
    LET hits == {i \in 1..Len(s) : AmountPatternAt(p, s, i) # <<>>}
    IN  IF hits = {} THEN <<>> ELSE AmountPatternAt(p, s, MinOf(hits))

\* the loop over amount_patterns, from pattern p on: the first pattern whose
\* leftmost capture is a strictly positive Decimal gives the amount
RECURSIVE AmountFrom(_, _)
AmountFrom(p, s) ==
    IF p > 4 THEN PyDecimal(0, 2)
    ELSE LET g == AmountSearch(p, s)
         IN  IF g # <<>> /\ Decimal(g).n > 0 THEN Decimal(g) ELSE AmountFrom(p + 1, s)

\* a variant that takes the first rule that matches, whatever its value
extract_amount_first_match(s) ==
    LET matching == {p \in 1..4 : AmountSearch(p, s) # <<>>}
    IN  IF matching = {} THEN PyDecimal(0, 2) ELSE Decimal(AmountSearch(MinOf(matching), s))

extract_amount(s) == AmountFrom(1, s)

----------------------------------------------------------------------------
(* What a call gives back: a value, or an exception that leaves the call.  *)
(* `printed` is what the call wrote with print() just before returning.    *)

Return(v) == [raised |-> FALSE, exc |-> "", val |-> v, printed |-> <<>>]
ReturnPrinting(v, msg) == [raised |-> FALSE, exc |-> "", val |-> v, printed |-> msg]
Raise(e) == [raised |-> TRUE, exc |-> e, val |-> PyNone, printed |-> <<>>]

PyBool(b) == [t |-> "bool", s |-> <<>>, n |-> IF b THEN 1 ELSE 0, e |-> 0]
PyTrue == PyBool(TRUE)
PyFalse == PyBool(FALSE)

----------------------------------------------------------------------------
(* categorize_expense *)

food == <<"f","o","o","d">>
transport == <<"t","r","a","n","s","p","o","r","t">>
office == <<"o","f","f","i","c","e">>
travel == <<"t","r","a","v","e","l">>
healthcare == <<"h","e","a","l","t","h","c","a","r","e">>
other == <<"o","t","h","e","r">>

\* the dict `categories`, in its declaration (= iteration) order
categories == <<
    [name |-> food, keywords |-> <<<<"r","e","s","t","a","u","r","a","n","t">>, <<"c","a","f","e">>, <<"f","o","o","d">>, <<"l","u","n","c","h">>, <<"d","i","n","n","e","r">>,
        <<"p","i","z","z","a">>, <<"b","u","r","g","e","r">>, <<"s","t","a","r","b","u","c","k","s">>, <<"m","c","d","o","n","a","l","d">>, <<"s","u","b","w","a","y">>>>],
    [name |-> transport, keywords |-> <<<<"t","a","x","i">>, <<"u","b","e","r">>, <<"b","u","s">>, <<"t","r","a","i","n">>, <<"f","u","e","l">>,
        <<"g","a","s">>, <<"p","a","r","k","i","n","g">>, <<"m","e","t","r","o">>, <<"l","y","f","t">>, <<"t","r","a","n","s","p","o","r","t">>>>],
    [name |-> office, keywords |-> <<<<"o","f","f","i","c","e">>, <<"s","u","p","p","l","i","e","s">>, <<"s","t","a","t","i","o","n","e","r","y">>, <<"p","a","p","e","r">>,
        <<"c","o","m","p","u","t","e","r">>, <<"s","o","f","t","w","a","r","e">>, <<"s","t","a","p","l","e","s">>, <<"d","e","p","o","t">>>>],
    [name |-> travel, keywords |-> <<<<"h","o","t","e","l">>, <<"f","l","i","g","h","t">>, <<"a","i","r","l","i","n","e">>, <<"a","c","c","o","m","m","o","d","a","t","i","o","n">>,
        <<"b","o","o","k","i","n","g">>, <<"a","i","r","b","n","b">>, <<"e","x","p","e","d","i","a">>, <<"m","a","r","r","i","o","t","t">>>>],
    [name |-> healthcare, keywords |-> <<<<"p","h","a","r","m","a","c","y">>, <<"m","e","d","i","c","a","l">>, <<"d","o","c","t","o","r">>, <<"h","o","s","p","i","t","a","l">>,
        <<"c","l","i","n","i","c">>, <<"c","v","s">>, <<"w","a","l","g","r","e","e","n","s">>, <<"h","e","a","l","t","h">>>>] >>

\* any(keyword in text_lower for keyword in categories[c])
AnyKeyword(c, text_lower) ==
    \E k \in 1..Len(categories[c].keywords) : Contains(text_lower, categories[c].keywords[k])

\* a variant that stops without the final `return 'other'`
categorize_expense_no_default(s) ==
    LET text_lower == lower(s)
        hits == {c \in 1..Len(categories) : AnyKeyword(c, text_lower)}
    IN  IF hits = {} THEN <<>> ELSE categories[MinOf(hits)].name

\* a variant in which the last matching category wins
categorize_expense_last_match(s) ==
    LET text_lower == lower(s)
        hits == {c \in 1..Len(categories) : AnyKeyword(c, text_lower)}
    IN  IF hits = {} THEN other ELSE categories[CHOOSE c \in hits : \A d \in hits : d <= c].name

categorize_expense(s) ==
    LET text_lower == lower(s)
        hits == {c \in 1..Len(categories) : AnyKeyword(c, text_lower)}
    IN  IF hits = {} THEN other ELSE categories[MinOf(hits)].name

----------------------------------------------------------------------------
(* extract_description *)

DescMax == 50
MinLineLen == 5

\* [line.strip() for line in text.split('\n') if line.strip()]
RECURSIVE StrippedLines(_)
StrippedLines(ls) ==
    IF ls = <<>> THEN <<>>
    ELSE IF strip(ls[1]) = <<>> THEN StrippedLines(Tail(ls))
    ELSE <<strip(ls[1])>> \o StrippedLines(Tail(ls))

\* re.match(r'^\d+[\.\-/]\d+', line)
DateLikePrefix(line) ==
    /\ IsDigit(At(line, 1))
    /\ LET k == DigitRunEnd(line, 1)
       IN  At(line, k) \in {".", "-", "/"} /\ IsDigit(At(line, k + 1))

\* s3_key.split('/')[-1].replace('_', ' ')
FilenameFallback(key_) ==
    LET parts == split(key_, "/")
    IN  replace(parts[Len(parts)], "_", " ")

\* a variant that does not skip lines beginning like a date
extract_description_any_line(s, key_) ==
    LET lines == StrippedLines(split(s, "\n"))
        good == {i \in 1..Len(lines) : Len(lines[i]) > MinLineLen}
    IN  IF good # {} THEN Prefix(lines[MinOf(good)], DescMax)
        ELSE FilenameFallback(key_)

extract_description(s, key_) ==
    LET lines == StrippedLines(split(s, "\n"))
        good == {i \in 1..Len(lines) : Len(lines[i]) > MinLineLen /\ ~DateLikePrefix(lines[i])}
    IN  IF good # {} THEN Prefix(lines[MinOf(good)], DescMax)
        ELSE FilenameFallback(key_)

----------------------------------------------------------------------------
(* Calendar dates, datetime.strptime and datetime.strftime *)

YearCutoff == 1950
CenturyShift == 100

IsLeap(y) == (y % 4 = 0 /\ y % 100 # 0) \/ y % 400 = 0

DaysInMonth(y, m) ==
    IF m = 2 THEN (IF IsLeap(y) THEN 29 ELSE 28)
    ELSE IF m \in {4, 6, 9, 11} THEN 30 ELSE 31

Date(y, m, d) == [year |-> y, month |-> m, day |-> d]

\* whether datetime(y, m, d) can be constructed
ValidDate(y, m, d) ==
    /\ y >= 1 /\ y <= 9999
    /\ m >= 1 /\ m <= 12
    /\ d >= 1 /\ d <= DaysInMonth(y, m)

InRange(c, lo, hi) == IsDigit(c) /\ DigitVal(c) >= lo /\ DigitVal(c) <= hi

\* The lengths the regular expression of a strptime directive can match at
\* position pos, in the order the alternatives are tried:
\*   %m  1[0-2]|0[1-9]|[1-9]        %d  3[0-1]|[1-2]\d|0[1-9]|[1-9]| [1-9]
\*   %Y  \d\d\d\d                   %y  \d\d
DirectiveLens(dir, s, pos) ==
    LET c1 == At(s, pos)
        c2 == At(s, pos + 1)
        opt(cond, n) == IF cond THEN <<n>> ELSE <<>>
    IN  CASE dir = "m" ->
                opt(c1 = "1" /\ InRange(c2, 0, 2), 2) \o opt(c1 = "0" /\ InRange(c2, 1, 9), 2)
                \o opt(InRange(c1, 1, 9), 1)
          [] dir = "d" ->
                opt(c1 = "3" /\ InRange(c2, 0, 1), 2) \o opt(InRange(c1, 1, 2) /\ IsDigit(c2), 2)
                \o opt(c1 = "0" /\ InRange(c2, 1, 9), 2) \o opt(InRange(c1, 1, 9), 1)
                \o opt(c1 = " " /\ InRange(c2, 1, 9), 2)
          [] dir = "Y" ->
                opt(\A k \in 0..3 : IsDigit(At(s, pos + k)), 4)
          [] dir = "y" ->
                opt(IsDigit(c1) /\ IsDigit(c2), 2)
          [] OTHER -> <<>>

NoMatch == [ok |-> FALSE, end |-> 0, Y |-> 0, y |-> 0, m |-> 0, d |-> 0, century |-> FALSE]

\* format_regex.match(data_string): the first way, in the regular expression's
\* backtracking order, to match the format from fpos on at position pos
RECURSIVE FormatMatch(_, _, _, _, _)
FormatMatch(s, pos, fmt, fpos, acc) ==
    IF fpos > Len(fmt) THEN [acc EXCEPT !.ok = TRUE, !.end = pos]
    ELSE IF fmt[fpos] = "%" THEN
        LET dir == fmt[fpos + 1]
            lens == DirectiveLens(dir, s, pos)
            field(n) == IntOf(strip(SubSeq(s, pos, pos + n - 1)))
            try(n) == FormatMatch(s, pos + n, fmt, fpos + 2,
                        CASE dir = "m" -> [acc EXCEPT !.m = field(n)]
                          [] dir = "d" -> [acc EXCEPT !.d = field(n)]
                          [] dir = "Y" -> [acc EXCEPT !.Y = field(n)]
                          [] dir = "y" -> [acc EXCEPT !.y = field(n), !.century = TRUE])
            good == {k \in 1..Len(lens) : try(lens[k]).ok}
        IN  IF good = {} THEN NoMatch ELSE try(lens[MinOf(good)])
    ELSE IF At(s, pos) = fmt[fpos] THEN FormatMatch(s, pos + 1, fmt, fpos + 1, acc)
    ELSE NoMatch

\* a variant that takes a two-digit year %y as the year itself, without a century
StrptimeResult_no_century(found, n) ==
    IF ~found.ok THEN Raise("ValueError")
    ELSE IF found.end # n + 1 THEN Raise("ValueError")
    ELSE IF ValidDate((IF found.century THEN found.y ELSE found.Y), found.m, found.d)
    THEN Return(Date((IF found.century THEN found.y ELSE found.Y), found.m, found.d))
    ELSE Raise("ValueError")

\* what strptime makes of the match `found` on a string of n characters
StrptimeResult(found, n) ==
    IF ~found.ok THEN Raise("ValueError")
    ELSE IF found.end # n + 1 THEN Raise("ValueError")
    ELSE IF found.century
    THEN (IF ValidDate((IF found.y <= 68 THEN 2000 ELSE 1900) + found.y, found.m, found.d)
          THEN Return(Date((IF found.y <= 68 THEN 2000 ELSE 1900) + found.y, found.m, found.d))
          ELSE Raise("ValueError"))
    ELSE (IF ValidDate(found.Y, found.m, found.d)
          THEN Return(Date(found.Y, found.m, found.d))
          ELSE Raise("ValueError"))

\* datetime.strptime(date_string, fmt): Return(date) or Raise("ValueError")
\* (no match, unconverted data, or no such calendar day).  A two-digit year %y
\* is 20yy up to the pivot 68 and 19yy above it.
strptime(date_string, fmt) ==
    StrptimeResult(FormatMatch(date_string, 1, fmt, 1, NoMatch), Len(date_string))

\* date.replace(year=y): Raise("ValueError") when the day does not exist in year y
replace_year(date, y) ==
    IF ValidDate(y, date.month, date.day)
    THEN Return(Date(y, date.month, date.day))
    ELSE Raise("ValueError")

\* date.strftime('%Y-%m-%d').  %Y of a year below 1000 comes from the C library:
\* zero-padded to four digits on some platforms, not padded on others (glibc).
strftime(date, pads) ==
    (IF pads THEN ZeroFill(StrOf(date.year), 4) ELSE StrOf(date.year))
    \o <<"-">> \o ZeroFill(StrOf(date.month), 2)
    \o <<"-">> \o ZeroFill(StrOf(date.day), 2)

----------------------------------------------------------------------------
(* extract_date *)

IsDateSep(c) == c \in {"/", "-"}

\* \d{1,2}[/-] matched at position i: the position after the separator, 0 when
\* it does not match
DayOrMonthThenSep(s, i) ==
    IF IsDigit(At(s, i)) /\ IsDigit(At(s, i + 1)) /\ IsDateSep(At(s, i + 2)) THEN i + 3
    ELSE IF IsDigit(At(s, i)) /\ IsDateSep(At(s, i + 1)) THEN i + 2
    ELSE 0

\* \d{1,2}[/-]\d{1,2}[/-] matched at position i: the position after the second
\* separator, 0 when it does not match
TwoFieldsThenSep(s, i) ==
    LET a == DayOrMonthThenSep(s, i)
    IN  IF a = 0 THEN 0 ELSE DayOrMonthThenSep(s, a)

\* number of digits at position i, counted up to most
DigitsUpTo(s, i, most) ==
    LET run == DigitRunEnd(s, i) - i
    IN  IF run > most THEN most ELSE run

\* group 1 of date_patterns[p] matched at position i, <<>> when it does not match
DatePatternAt(p, s, i) ==
    CASE p = 1 ->   \* (\d{1,2}[/-]\d{1,2}[/-]\d{4})
            LET b == TwoFieldsThenSep(s, i)
            IN  IF b # 0 /\ DigitsUpTo(s, b, 4) = 4 THEN SubSeq(s, i, b + 3) ELSE <<>>
      [] p = 2 ->   \* (\d{4}[/-]\d{1,2}[/-]\d{1,2})
            IF DigitsUpTo(s, i, 4) = 4 /\ IsDateSep(At(s, i + 4))
            THEN LET b == DayOrMonthThenSep(s, i + 5)
                 IN  IF b # 0 /\ DigitsUpTo(s, b, 2) >= 1
                     THEN SubSeq(s, i, b + DigitsUpTo(s, b, 2) - 1) ELSE <<>>
            ELSE <<>>
      [] p = 3 ->   \* (\d{1,2}[/-]\d{1,2}[/-]\d{2})
            LET b == TwoFieldsThenSep(s, i)
            IN  IF b # 0 /\ DigitsUpTo(s, b, 2) = 2 THEN SubSeq(s, i, b + 1) ELSE <<>>
      [] p = 4 ->   \* Date[:\s]*(\d{1,2}[/-]\d{1,2}[/-]\d{2,4})
            IF OccursAtIgnoreCase(s, i, <<"D","a","t","e">>)
            THEN LET g == LabelGapEnd(s, i + 4)
                     b == TwoFieldsThenSep(s, g)
                 IN  IF b # 0 /\ DigitsUpTo(s, b, 4) >= 2
                     THEN SubSeq(s, g, b + DigitsUpTo(s, b, 4) - 1) ELSE <<>>
            ELSE <<>>

\* re.search(date_patterns[p], text, re.IGNORECASE).group(1): the leftmost
\* match's capture, <<>> when the pattern matches nowhere
DateSearch(p, s) ==
    LET hits == {i \in 1..Len(s) : DatePatternAt(p, s, i) # <<>>}
    IN  IF hits = {} THEN <<>> ELSE DatePatternAt(p, s, MinOf(hits))

date_formats == <<<<"%","m","/","%","d","/","%","Y">>, <<"%","d","/","%","m","/","%","Y">>, <<"%","Y","-","%","m","-","%","d">>, <<"%","m","-","%","d","-","%","Y">>, <<"%","d","-","%","m","-","%","Y">>,
                  <<"%","m","/","%","d","/","%","y">>, <<"%","d","/","%","m","/","%","y">>>>

\* parsed_date.strftime('%Y-%m-%d') of the adjusted date, when the adjustment
\* did not raise
FormatAdjusted(adjusted, pads) ==
    IF adjusted.raised THEN adjusted ELSE Return(PyStr(strftime(adjusted.val, pads)))

\* `if parsed_date.year < 1950: parsed_date = parsed_date.replace(year + 100)`
\* and the strftime that follows, when strptime did not raise
AdjustAndFormat(parsed, pads) ==
    IF parsed.raised THEN parsed
    ELSE FormatAdjusted(IF parsed.val.year < YearCutoff
                        THEN replace_year(parsed.val, parsed.val.year + CenturyShift)
                        ELSE parsed, pads)

\* The body of the try block for one format: strptime, the year adjustment,
\* strftime.  Any of the three may raise ValueError.
TryFormat(date_str, fmt, pads) == AdjustAndFormat(strptime(date_str, fmt), pads)

\* The loop over date_formats from format f on: <<r>> when the try block of
\* some format ends in r without a ValueError, <<>> when every format raised
\* ValueError.  FormatStep is the end of one iteration, whose try block ended
\* in r: `except ValueError: continue`.
RECURSIVE FormatsFrom(_, _, _)
RECURSIVE FormatStep(_, _, _, _)
FormatStep(f, date_str, pads, r) ==
    IF r.raised /\ r.exc = "ValueError" THEN FormatsFrom(f + 1, date_str, pads) ELSE <<r>>

FormatsFrom(f, date_str, pads) ==
    IF f > Len(date_formats) THEN <<>>
    ELSE FormatStep(f, date_str, pads, TryFormat(date_str, date_formats[f], pads))

\* The loop over date_patterns from pattern p on, then the fallback to today.
\* PatternStep is one iteration, whose re.search captured date_str; PatternEnd
\* is its end, when the loop over the formats gave r.
RECURSIVE PatternsFrom(_, _, _, _)
RECURSIVE PatternStep(_, _, _, _, _)
RECURSIVE PatternEnd(_, _, _, _, _)
PatternEnd(p, s, now, pads, r) ==
    IF r = <<>> THEN PatternsFrom(p + 1, s, now, pads) ELSE r[1]

PatternStep(p, s, now, pads, date_str) ==
    IF date_str = <<>> THEN PatternsFrom(p + 1, s, now, pads)
    ELSE PatternEnd(p, s, now, pads, FormatsFrom(1, date_str, pads))

PatternsFrom(p, s, now, pads) ==
    IF p > 4 THEN Return(PyStr(strftime(now, pads)))
    ELSE PatternStep(p, s, now, pads, DateSearch(p, s))

\* extract_date(text), given the current day and the platform's strftime
extract_date(s, now, pads) == PatternsFrom(1, s, now, pads)

----------------------------------------------------------------------------
(* extract_expense_info: the assembler *)

RawTextMax == 500

\* str(uuid.uuid4()) for the n-th value drawn: no two draws are equal
uuid4(n) == <<"u","u","i","d","-">> \o StrOf(n)

\* datetime.utcnow().isoformat(), to the day
isoformat(now) == strftime(now, TRUE) \o <<"T">>

\* a variant that keeps the whole text as raw_text
Assemble_whole_text(s, key_, n, now, expense_date) ==
    IF expense_date.raised THEN expense_date
    ELSE Return([expense_id |-> PyStr(uuid4(n)),
                 amount |-> extract_amount(s),
                 category |-> PyStr(categorize_expense(s)),
                 description |-> PyStr(extract_description(s, key_)),
                 date |-> expense_date.val,
                 processed_at |-> PyStr(isoformat(now)),
                 s3_key |-> PyStr(key_),
                 raw_text |-> PyStr(s)])

\* the dict extract_expense_info returns, given what extract_date gave
Assemble(s, key_, n, now, expense_date) ==
    IF expense_date.raised THEN expense_date
    ELSE Return([expense_id |-> PyStr(uuid4(n)),
                 amount |-> extract_amount(s),
                 category |-> PyStr(categorize_expense(s)),
                 description |-> PyStr(extract_description(s, key_)),
                 date |-> expense_date.val,
                 processed_at |-> PyStr(isoformat(now)),
                 s3_key |-> PyStr(key_),
                 raw_text |-> PyStr(Prefix(s, RawTextMax))])

extract_expense_info(s, key_, n, now, pads) ==
    Assemble(s, key_, n, now, extract_date(s, now, pads))

----------------------------------------------------------------------------
(* validate_expense_data *)

required_fields == <<"expense_id", "amount", "category", "description", "date">>

\* `field not in expense_data or not expense_data[field]`
MissingOrEmpty(data, field) == field \notin DOMAIN data \/ ~Truthy(data[field])

\* a variant without the amount check
ChecksAfterFields_no_amount_check(data, bad) ==
    IF bad \ {2} # {}
    THEN ReturnPrinting(PyFalse, <<"Missing or empty field", required_fields[MinOf(bad \ {2})]>>)
    ELSE IF data["date"].t # "str" THEN Raise("TypeError")
    ELSE IF strptime(data["date"].s, <<"%","Y","-","%","m","-","%","d">>).raised
    THEN ReturnPrinting(PyFalse, <<"Invalid date format">>)
    ELSE ReturnPrinting(PyTrue, <<>>)

\* The checks that follow the required-fields loop, which found the set `bad`
\* of positions of missing or empty fields.  An amount that does not compare
\* with 0 and a date that is no str raise TypeError.
ChecksAfterFields(data, bad) ==
    IF bad # {}
    THEN ReturnPrinting(PyFalse, <<"Missing or empty field", required_fields[MinOf(bad)]>>)
    ELSE IF data["amount"].t \notin {"Decimal", "int"} THEN Raise("TypeError")
    ELSE IF data["amount"].n <= 0
    THEN ReturnPrinting(PyFalse, <<"Invalid amount">>)
    ELSE IF data["date"].t # "str" THEN Raise("TypeError")
    ELSE IF strptime(data["date"].s, <<"%","Y","-","%","m","-","%","d">>).raised
    THEN ReturnPrinting(PyFalse, <<"Invalid date format">>)
    ELSE ReturnPrinting(PyTrue, <<>>)

\* The statements inside validate_expense_data's outer try.  A value that is
\* no dict raises TypeError at `field not in expense_data`.
ValidateBody(data) ==
    IF data = PyNone THEN Raise("TypeError")
    ELSE ChecksAfterFields(data,
            {i \in 1..Len(required_fields) : MissingOrEmpty(data, required_fields[i])})

\* what the outer `except Exception` makes of the body's end r
ExceptException(r) ==
    IF r.raised THEN ReturnPrinting(PyFalse, <<"Validation error", r.exc>>) ELSE r

\* a variant without the outer `except Exception`
validate_expense_data_unguarded(data) == ValidateBody(data)

\* validate_expense_data: the outer `except Exception` turns every exception
\* into False
validate_expense_data(data) == ExceptException(ValidateBody(data))

----------------------------------------------------------------------------
(* lambda_handler: one iteration of `for record in event['Records']` *)

Unbound == [t |-> "unbound", s |-> <<>>, n |-> 0, e |-> 0]

\* str.endswith(suffix)
EndsWith(s, suffix) == Len(s) >= Len(suffix) /\ OccursAt(s, Len(s) - Len(suffix) + 1, suffix)

text_suffixes == {<<".","t","x","t">>, <<".","t","e","x","t">>}
document_suffixes == {<<".","t","x","t">>, <<".","t","e","x","t">>, <<".","p","d","f">>, <<".","j","p","g">>, <<".","j","p","e","g">>, <<".","p","n","g">>}

\* key.lower().endswith(('.txt', '.text'))
IsTextKey(key_) == \E x \in text_suffixes : EndsWith(lower(key_), x)

\* a variant that looks for the suffix anywhere in the key
IsDocumentKey_anywhere(key_) == \E x \in document_suffixes : Contains(lower(key_), x)

\* key.lower().endswith(('.txt', '.text', '.pdf', '.jpg', '.jpeg', '.png'))
IsDocumentKey(key_) == \E x \in document_suffixes : EndsWith(lower(key_), x)

\* ' '.join(...) of a list of strings
RECURSIVE JoinSpaces(_)
JoinSpaces(ls) ==
    IF ls = <<>> THEN <<>>
    ELSE IF Len(ls) = 1 THEN ls[1]
    ELSE ls[1] \o <<" ">> \o JoinSpaces(Tail(ls))

\* a variant that takes the Text of every block, whatever its type
RECURSIVE LineTexts_all_blocks(_)
LineTexts_all_blocks(blocks) ==
    IF blocks = <<>> THEN <<>>
    ELSE <<blocks[1].Text>> \o LineTexts_all_blocks(Tail(blocks))

\* [block['Text'] for block in response['Blocks'] if block['BlockType'] == 'LINE']
RECURSIVE LineTexts(_)
LineTexts(blocks) ==
    IF blocks = <<>> THEN <<>>
    ELSE IF blocks[1].BlockType = "LINE" THEN <<blocks[1].Text>> \o LineTexts(Tail(blocks))
    ELSE LineTexts(Tail(blocks))

\* What the collaborators answer for one record: whether s3.get_object,
\* textract.detect_document_text and table.put_item raise, the decoded object
\* body and the OCR response's Blocks.
Answers(s3_raises, body, ocr_raises, blocks, put_raises) ==
    [s3_raises |-> s3_raises, body |-> body, ocr_raises |-> ocr_raises,
     blocks |-> blocks, put_raises |-> put_raises]

\* Text extraction for a supported key: Return(full_text) or the collaborator's
\* exception.
ReadText(key_, answers) ==
    IF IsTextKey(key_)
    THEN (IF answers.s3_raises THEN Raise("ClientError") ELSE Return(PyStr(answers.body)))
    ELSE (IF answers.ocr_raises THEN Raise("ClientError")
          ELSE Return(PyStr(JoinSpaces(LineTexts(answers.blocks)))))

PutItem(i, Item, ok) == [op |-> "put_item", record |-> i, Item |-> Item, ok |-> ok]

\* a variant that saves without looking at the validation result
SaveStep_ungated(i, data, answers) ==
    IF answers.put_raises
    THEN [outcome |-> "error", ops |-> <<PutItem(i, data, FALSE)>>, counted |-> 0]
    ELSE [outcome |-> "saved", ops |-> <<PutItem(i, data, TRUE)>>, counted |-> 1]

\* validation gate, table.put_item and processed_count += 1
SaveStep(i, data, answers) ==
    IF validate_expense_data(data).val # PyTrue
    THEN [outcome |-> "invalid", ops |-> <<>>, counted |-> 0]
    ELSE IF answers.put_raises
    THEN [outcome |-> "error", ops |-> <<PutItem(i, data, FALSE)>>, counted |-> 0]
    ELSE [outcome |-> "saved", ops |-> <<PutItem(i, data, TRUE)>>, counted |-> 1]

\* what one iteration does when it ends without an exception and without
\* reaching the save step
Ended(key_, how, read_s3, called_ocr, drawn) ==
    [key |-> key_, outcome |-> how, ops |-> <<>>, counted |-> 0,
     s3_read |-> read_s3, ocr_call |-> called_ocr, uuids |-> drawn, escaped |-> FALSE]

\* The inner `except Exception as e: print(f"Error processing {key}: ...")`:
\* formatting the message reads the local `key`; while `key` is unbound that
\* read raises UnboundLocalError inside the handler, which leaves the loop.
ErrorHandler(key_, read_s3, called_ocr, drawn, ops) ==
    [key |-> key_, outcome |-> IF key_ = Unbound THEN "aborted" ELSE "error",
     ops |-> ops, counted |-> 0,
     s3_read |-> read_s3, ocr_call |-> called_ocr, uuids |-> drawn,
     escaped |-> (key_ = Unbound)]

\* the end of an iteration whose save step gave `save`
AfterSave(key_, is_text, save) ==
    IF save.outcome = "error" THEN ErrorHandler(key_, is_text, ~is_text, 1, save.ops)
    ELSE [key |-> key_, outcome |-> save.outcome, ops |-> save.ops,
          counted |-> save.counted, s3_read |-> is_text, ocr_call |-> ~is_text,
          uuids |-> 1, escaped |-> FALSE]

\* the rest of an iteration once extract_expense_info gave `data`
AfterExtract(i, key_, is_text, answers, data) ==
    IF data.raised THEN ErrorHandler(key_, is_text, ~is_text, 1, <<>>)
    ELSE AfterSave(key_, is_text, SaveStep(i, data.val, answers))

\* the rest of an iteration once the text extraction gave full_text
AfterRead(i, record, is_text, answers, n, now, pads, full_text) ==
    IF full_text.raised THEN ErrorHandler(PyStr(record.key), is_text, ~is_text, 0, <<>>)
    ELSE IF strip(full_text.val.s) = <<>>
    THEN Ended(PyStr(record.key), "empty", is_text, ~is_text, 0)
    ELSE AfterExtract(i, PyStr(record.key), is_text, answers,
                      extract_expense_info(full_text.val.s, record.key, n, now, pads))

\* The body of the loop for the i-th record, entered with `key` bound to
\* key_in (or unbound) and n uuids drawn so far.
Iteration(i, record, answers, key_in, n, now, pads) ==
    IF ~record.wellformed THEN ErrorHandler(key_in, FALSE, FALSE, 0, <<>>)
    ELSE IF ~IsDocumentKey(record.key) THEN Ended(PyStr(record.key), "unsupported", FALSE, FALSE, 0)
    ELSE AfterRead(i, record, IsTextKey(record.key), answers, n, now, pads,
                   ReadText(record.key, answers))

----------------------------------------------------------------------------
(* Inputs *)

MaxBatch == 3
MaxFrags == 2
MaxCalls == 3

Today == Date(2026, 11, 2)

Block(type, s) == [BlockType |-> type, Text |-> s]

NoBlocks == <<>>

\* an S3 event record and what the collaborators answer for it
Doc(wellformed, key_, answers) == [record |-> [wellformed |-> wellformed, key |-> key_], answers |-> answers]

Docs == {
    \* a record without the ['s3']['object']['key'] structure
    Doc(FALSE, <<>>, Answers(FALSE, <<>>, FALSE, NoBlocks, FALSE)),
    \* an unsupported file type
    Doc(TRUE, <<"u","p","l","o","a","d","s","/","n","o","t","e","s",".","d","o","c","x">>, Answers(FALSE, <<>>, FALSE, NoBlocks, FALSE)),
    \* a text receipt that is accepted and saved
    Doc(TRUE, <<"u","p","l","o","a","d","s","/","r",".","t","x","t">>, Answers(FALSE, <<"S","t","a","r","b","u","c","k","s"," ","C","o","f","f","e","e","\n","T","o","t","a","l",":"," ","$","4",".","8","5">>, FALSE, NoBlocks, FALSE)),
    \* a text file without an amount: rejected by validation
    Doc(TRUE, <<"u","p","l","o","a","d","s","/","u",".","t","x","t">>, Answers(FALSE, <<"U","b","e","r"," ","r","i","d","e"," ","t","o"," ","a","i","r","p","o","r","t">>, FALSE, NoBlocks, FALSE)),
    \* an image whose OCR lines make an accepted record
    Doc(TRUE, <<"u","p","l","o","a","d","s","/","s",".","J","P","G">>, Answers(FALSE, <<>>, FALSE,
        <<Block("PAGE", <<>>), Block("LINE", <<"L","u","n","c","h"," ","m","e","n","u">>), Block("WORD", <<"L","u","n","c","h">>),
          Block("LINE", <<"T","o","t","a","l",":"," ","$","1","2",".","0","0">>)>>, FALSE)),
    \* a text file whose storage read fails
    Doc(TRUE, <<"u","p","l","o","a","d","s","/","e",".","t","x","t">>, Answers(TRUE, <<>>, FALSE, NoBlocks, FALSE)),
    \* an image for which the OCR provider fails
    Doc(TRUE, <<"u","p","l","o","a","d","s","/","o",".","p","n","g">>, Answers(FALSE, <<>>, TRUE, NoBlocks, FALSE)),
    \* an accepted record whose put_item fails
    Doc(TRUE, <<"u","p","l","o","a","d","s","/","p",".","t","x","t">>, Answers(FALSE, <<"A","m","o","u","n","t"," ","$","4","5",".","0","0"," ","t","a","x","i">>, FALSE, NoBlocks, TRUE)),
    \* a text file holding only whitespace
    Doc(TRUE, <<"u","p","l","o","a","d","s","/","w",".","t","e","x","t">>, Answers(FALSE, <<" ","\n">>, FALSE, NoBlocks, FALSE)) }

RECURSIVE SeqsOfLen(_, _)
SeqsOfLen(S, n) == IF n = 0 THEN {<<>>} ELSE {Append(q, x) : q \in SeqsOfLen(S, n - 1), x \in S}

Batches == UNION {SeqsOfLen(Docs, n) : n \in 0..MaxBatch}

----------------------------------------------------------------------------
(* lambda_handler as a state machine: one step per loop iteration *)

NoRecord == Return(PyNone)

\* the variables of the upload API and of the expense listing, unused by the
\* document pipeline
ApiIdle ==
    /\ clock = 0
    /\ requests = <<>>
    /\ uploads = <<>>
    /\ put_object_calls = <<>>
    /\ scan_answer = NoRecord
    /\ listing = NoRecord

\* the unit-call variables, unused by the handler
UnitIdle ==
    /\ text = <<>>
    /\ s3_key = <<>>
    /\ expense_data = NoRecord
    /\ verdict = NoRecord
    /\ phase = "idle"
    /\ cat_log = <<>>

\* the handler variables, unused by the unit calls
HandlerIdle ==
    /\ event = [has_records |-> FALSE, Records |-> <<>>]
    /\ env = <<>>
    /\ idx = 0
    /\ key = Unbound
    /\ table_ops = <<>>
    /\ s3_reads = {}
    /\ ocr_calls = {}
    /\ outcomes = <<>>
    /\ processed_count = 0
    /\ response = 0

Init ==
    /\ \E batch \in Batches, has_records \in BOOLEAN :
        /\ has_records \/ batch = <<>>
        /\ event = [has_records |-> has_records,
                    Records |-> [i \in 1..Len(batch) |-> batch[i].record]]
        /\ env = [i \in 1..Len(batch) |-> batch[i].answers]
    /\ idx = 0
    /\ key = Unbound
    /\ table_ops = <<>>
    /\ s3_reads = {}
    /\ ocr_calls = {}
    /\ outcomes = <<>>
    /\ processed_count = 0
    /\ response = 0
    /\ uuid_next = 0
    /\ today = Today
    /\ pads_year \in BOOLEAN
    /\ UnitIdle
    /\ ApiIdle

\* boto3.client / boto3.resource raise: 500 before anything is processed
ServiceInitFails ==
    /\ response = 0 /\ idx = 0
    /\ response' = 500
    /\ UNCHANGED <<event, env, idx, key, table_ops, s3_reads, ocr_calls, outcomes,
                   processed_count, uuid_next, today, pads_year,
                   text, s3_key, expense_data, verdict, phase, cat_log,
                   clock, requests, uploads, put_object_calls, scan_answer, listing>>

\* 'Records' not in event: 400
NoRecords ==
    /\ response = 0
    /\ ~event.has_records
    /\ response' = 400
    /\ UNCHANGED <<event, env, idx, key, table_ops, s3_reads, ocr_calls, outcomes,
                   processed_count, uuid_next, today, pads_year,
                   text, s3_key, expense_data, verdict, phase, cat_log,
                   clock, requests, uploads, put_object_calls, scan_answer, listing>>

\* the assignments one iteration ending in r makes
Assign(i, r) ==
    /\ idx' = i
    /\ key' = r.key
    /\ table_ops' = table_ops \o r.ops
    /\ s3_reads' = IF r.s3_read THEN s3_reads \cup {i} ELSE s3_reads
    /\ ocr_calls' = IF r.ocr_call THEN ocr_calls \cup {i} ELSE ocr_calls
    /\ outcomes' = Append(outcomes, r.outcome)
    /\ processed_count' = processed_count + r.counted
    /\ uuid_next' = uuid_next + r.uuids
    /\ response' = IF r.escaped THEN 500 ELSE 0

\* one iteration of the loop; an exception that escapes the inner handler is
\* caught by the outer `except Exception`, which returns 500
ProcessRecord ==
    /\ response = 0
    /\ event.has_records
    /\ idx < Len(event.Records)
    /\ Assign(idx + 1, Iteration(idx + 1, event.Records[idx + 1], env[idx + 1], key,
                                 uuid_next, today, pads_year))
    /\ UNCHANGED <<event, env, today, pads_year,
                   text, s3_key, expense_data, verdict, phase, cat_log,
                   clock, requests, uploads, put_object_calls, scan_answer, listing>>

\* the loop is over: 200 with processed_count
ProcessingComplete ==
    /\ response = 0
    /\ event.has_records
    /\ idx = Len(event.Records)
    /\ response' = 200
    /\ UNCHANGED <<event, env, idx, key, table_ops, s3_reads, ocr_calls, outcomes,
                   processed_count, uuid_next, today, pads_year,
                   text, s3_key, expense_data, verdict, phase, cat_log,
                   clock, requests, uploads, put_object_calls, scan_answer, listing>>

Next == ServiceInitFails \/ NoRecords \/ ProcessRecord \/ ProcessingComplete

Spec == Init /\ [][Next]_vars

\* Batches mixing supported and unsupported file types
MixedDocs == {
    Doc(TRUE, <<"u","p","l","o","a","d","s","/","n","o","t","e","s",".","d","o","c","x">>, Answers(FALSE, <<>>, FALSE, NoBlocks, FALSE)),
    Doc(TRUE, <<"u","p","l","o","a","d","s","/","a","l","l",".","z","i","p">>, Answers(FALSE, <<>>, FALSE, NoBlocks, FALSE)),
    \* a supported suffix that is not at the end
    Doc(TRUE, <<"u","p","l","o","a","d","s","/","s","c","a","n",".","p","d","f",".","b","a","k">>, Answers(FALSE, <<>>, FALSE,
        <<Block("LINE", <<"L","u","n","c","h"," ","m","e","n","u"," ","T","o","t","a","l",":"," ","$","1","2",".","0","0">>)>>, FALSE)),
    \* no extension at all
    Doc(TRUE, <<"u","p","l","o","a","d","s","/","t","x","t">>, Answers(FALSE, <<"T","o","t","a","l",":"," ","$","4",".","8","5"," ","R","e","c","e","i","p","t">>, FALSE, NoBlocks, FALSE)),
    Doc(TRUE, <<"u","p","l","o","a","d","s","/","r",".","t","x","t">>, Answers(FALSE, <<"S","t","a","r","b","u","c","k","s"," ","C","o","f","f","e","e","\n","T","o","t","a","l",":"," ","$","4",".","8","5">>, FALSE, NoBlocks, FALSE)),
    Doc(TRUE, <<"u","p","l","o","a","d","s","/","P","h","o","t","o",".","P","n","G">>, Answers(FALSE, <<>>, FALSE,
        <<Block("LINE", <<"H","o","t","e","l"," ","b","o","o","k","i","n","g">>), Block("LINE", <<"T","o","t","a","l",":"," ","$","1","2","0",".","0","0">>)>>, FALSE)),
    Doc(TRUE, <<"u","p","l","o","a","d","s","/","u",".","T","X","T">>, Answers(FALSE, <<"U","b","e","r"," ","r","i","d","e"," ","t","o"," ","a","i","r","p","o","r","t">>, FALSE, NoBlocks, FALSE)) }

MixedBatches == UNION {SeqsOfLen(MixedDocs, n) : n \in 0..MaxBatch}

InitMixed ==
    /\ \E batch \in MixedBatches :
        /\ event = [has_records |-> TRUE,
                    Records |-> [i \in 1..Len(batch) |-> batch[i].record]]
        /\ env = [i \in 1..Len(batch) |-> batch[i].answers]
    /\ idx = 0
    /\ key = Unbound
    /\ table_ops = <<>>
    /\ s3_reads = {}
    /\ ocr_calls = {}
    /\ outcomes = <<>>
    /\ processed_count = 0
    /\ response = 0
    /\ uuid_next = 0
    /\ today = Today
    /\ pads_year = FALSE
    /\ UnitIdle
    /\ ApiIdle

NextMixed == ProcessRecord \/ ProcessingComplete

SpecMixed == InitMixed /\ [][NextMixed]_vars

----------------------------------------------------------------------------
(* Direct calls of the extractors and the validator, as the unit tests make *)
(* them: a text and a source reference are drawn, extract_expense_info is   *)
(* called on them and validate_expense_data on its result; or a record is   *)
(* built by hand and validate_expense_data is called on it.                 *)

Seps == {<<" ">>, <<"\n">>}

\* the texts made of exactly n fragments of F joined by sep
RECURSIVE Joined(_, _, _)
Joined(F, sep, n) ==
    IF n = 1 THEN F ELSE {q \o sep \o f : q \in Joined(F, sep, n - 1), f \in F}

\* the texts made of up to MaxFrags fragments of F
Texts(F) == UNION {Joined(F, sep, n) : sep \in Seps, n \in 1..MaxFrags}

AmountFrags == {<<"T","o","t","a","l",":"," ","$","4",".","8","5">>, <<"S","u","b","t","o","t","a","l",":"," ","$","4",".","0","0">>, <<"A","m","o","u","n","t"," ","$","4","5",".","0","0">>, <<"$","0",".","3","5">>, <<"1","5",".","7","5">>,
                <<"T","o","t","a","l",":"," ","$","0",".","0","0">>, <<"T","O","T","A","L"," ","7">>, <<"N","o"," ","a","m","o","u","n","t"," ","h","e","r","e">>, <<"G","r","a","n","d"," ","t","o","t","a","l",":"," ","1","0","0",".","0","0">>}

DateFrags == {<<"0","1","/","1","5","/","2","0","2","4">>, <<"0","2","/","2","9","/","1","6","0","0">>, <<"0","1","/","1","5","/","0","0","5","0">>, <<"2","0","2","4","/","0","3","/","1","0">>, <<"D","a","t","e",":"," ","0","1","/","1","5","/","2","4">>,
              <<"1","3","/","0","1","/","2","0","2","4">>, <<"2","0","2","4","-","0","3","-","1","0">>, <<"0","2","/","3","0","/","2","0","2","4">>, <<"1","2","/","2","5","/","1","9","4","0">>, <<"N","o"," ","d","a","t","e"," ","h","e","r","e">>,
              <<"0","1","-","1","5","/","2","0","2","4">>, <<"D","a","t","e",":"," ","3","/","4","/","2","4">>}

DescFrags == {<<"S","t","a","r","b","u","c","k","s"," ","C","o","f","f","e","e">>, <<"1","2","/","2","5","/","2","0","2","3"," ","1","0",":","4","2">>, <<"a","b","c">>, <<" "," "," ">>, <<"1","2","3"," ","M","a","i","n"," ","S","t","r","e","e","t">>,
              <<"S","t","a","r","b","u","c","k","s"," ","C","o","f","f","e","e"," ","C","o","m","p","a","n","y"," ","S","t","o","r","e"," ","1","2","3","4"," ","a","t"," ","5","0","0"," ","M","a","i","n"," ","S","t","r","e","e","t"," ","W","e","s","t">>}

CatFrags == {<<"O","f","f","i","c","e"," ","s","u","p","p","l","i","e","s"," ","f","r","o","m"," ","S","t","a","p","l","e","s">>, <<"R","e","s","t","a","u","r","a","n","t">>, <<"p","a","r","k","i","n","g">>, <<"H","o","t","e","l">>, <<"C","V","S"," ","P","h","a","r","m","a","c","y">>, <<"R","a","n","d","o","m"," ","e","x","p","e","n","s","e">>}

RecordFrags == {<<"S","t","a","r","b","u","c","k","s"," ","C","o","f","f","e","e">>, <<"T","o","t","a","l",":"," ","$","4",".","8","5">>, <<"0","1","/","1","5","/","0","0","5","0">>, <<"D","a","t","e",":"," ","0","1","/","1","5","/","2","0","2","4">>,
                <<"U","b","e","r"," ","r","i","d","e"," ","t","o"," ","a","i","r","p","o","r","t">>, <<"1","5",".","7","5">>, <<"0","2","/","2","9","/","1","6","0","0">>}

Keys == {<<"t","e","s","t","_","r","e","c","e","i","p","t",".","j","p","g">>,
         <<"u","p","l","o","a","d","s","/","2","0","2","4","0","1","1","5","_","1","2","0","0","0","0","_","q","u","a","r","t","e","r","l","y","_","o","f","f","i","c","e","_","s","u","p","p","l","i","e","s","_","r","e","c","e","i","p","t","_","s","c","a","n","_","f","i","n","a","l",".","j","p","g">>,
         <<"u","p","l","o","a","d","s","/">>}

\* records built by hand: each required field is absent, empty, well-formed or
\* of the wrong type
Absent == [t |-> "absent", s |-> <<>>, n |-> 0, e |-> 0]

FieldChoices == [
    expense_id |-> {Absent, PyStr(<<>>), PyStr(<<"t","e","s","t","-","1","2","3">>)},
    amount |-> {Absent, PyDecimal(0, 2), PyDecimal(-100, 2), PyDecimal(2550, 2), PyStr(<<"a","b","c">>)},
    category |-> {Absent, PyStr(<<>>), PyStr(food)},
    description |-> {Absent, PyStr(<<>>), PyStr(<<"C","o","f","f","e","e"," ","S","h","o","p">>)},
    date |-> {Absent, PyStr(<<>>), PyStr(<<"2","0","2","4","-","0","1","-","1","5">>), PyStr(<<"i","n","v","a","l","i","d","-","d","a","t","e">>),
              PyStr(<<"2","0","2","4","-","0","2","-","3","0">>), PyStr(<<"2","0","2","4","-","1","-","5">>), PyStr(<<"1","5","/","0","1","/","2","0","2","4">>), PyInt(20240115)} ]

\* the dict holding the fields of f that are not Absent
Built(f) == [k \in {x \in DOMAIN f : f[x] # Absent} |-> f[k]]

Candidates ==
    {Built(f) : f \in {g \in [DOMAIN FieldChoices -> UNION {FieldChoices[k] : k \in DOMAIN FieldChoices}] :
                            \A k \in DOMAIN FieldChoices : g[k] \in FieldChoices[k]}}
    \cup {PyNone}

\* a drawn text and source reference, before extract_expense_info is called
UnitStart(texts, keys, platforms) ==
    /\ HandlerIdle
    /\ ApiIdle
    /\ uuid_next = 0
    /\ today = Today
    /\ pads_year \in platforms
    /\ text \in texts
    /\ s3_key \in keys
    /\ expense_data = NoRecord
    /\ verdict = NoRecord
    /\ phase = "start"
    /\ cat_log = <<>>

\* a record built by hand, before validate_expense_data is called
UnitBuilt ==
    /\ HandlerIdle
    /\ ApiIdle
    /\ uuid_next = 0
    /\ today = Today
    /\ pads_year = FALSE
    /\ text = <<>>
    /\ s3_key = <<>>
    /\ expense_data \in {Return(c) : c \in Candidates}
    /\ verdict = NoRecord
    /\ phase = "built"
    /\ cat_log = <<>>

\* result = extract_expense_info(text, s3_key)
CallExtract ==
    /\ phase = "start"
    /\ expense_data' = extract_expense_info(text, s3_key, uuid_next, today, pads_year)
    /\ uuid_next' = uuid_next + 1
    /\ phase' = "extracted"
    /\ UNCHANGED <<event, env, idx, key, table_ops, s3_reads, ocr_calls, outcomes,
                   processed_count, response, today, pads_year, text, s3_key, verdict, cat_log,
                   clock, requests, uploads, put_object_calls, scan_answer, listing>>

\* validate_expense_data(result), on an extracted record ("round_trip") or on
\* a record built by hand ("validated")
CallValidate ==
    /\ phase \in {"extracted", "built"}
    /\ ~expense_data.raised
    /\ verdict' = validate_expense_data(expense_data.val)
    /\ phase' = IF phase = "extracted" THEN "round_trip" ELSE "validated"
    /\ UNCHANGED <<event, env, idx, key, table_ops, s3_reads, ocr_calls, outcomes,
                   processed_count, response, uuid_next, today, pads_year,
                   text, s3_key, expense_data, cat_log,
                   clock, requests, uploads, put_object_calls, scan_answer, listing>>

NextUnit == CallExtract \/ CallValidate

InitAmount == UnitStart(Texts(AmountFrags), {<<"t","e","s","t",".","t","x","t">>}, {FALSE})
SpecAmount == InitAmount /\ [][NextUnit]_vars

InitDate == UnitStart(Texts(DateFrags), {<<"t","e","s","t",".","t","x","t">>}, BOOLEAN)
SpecDate == InitDate /\ [][NextUnit]_vars

InitDescription == UnitStart(Texts(DescFrags) \cup {<<>>}, Keys, {FALSE})
SpecDescription == InitDescription /\ [][NextUnit]_vars

InitRecord == UnitStart(Texts(RecordFrags) \cup {<<>>}, {<<"t","e","s","t","_","r","e","c","e","i","p","t",".","j","p","g">>}, BOOLEAN) \/ UnitBuilt
SpecRecord == InitRecord /\ [][NextUnit]_vars

\* categorize_expense(t), on the text under test or on another text
CallCategorize ==
    /\ phase = "start"
    /\ Len(cat_log) < MaxCalls
    /\ \E t \in {text, <<"U","b","e","r"," ","r","i","d","e"," ","t","o"," ","a","i","r","p","o","r","t">>} :
        cat_log' = Append(cat_log, [text |-> t, category |-> categorize_expense(t)])
    /\ UNCHANGED <<event, env, idx, key, table_ops, s3_reads, ocr_calls, outcomes,
                   processed_count, response, uuid_next, today, pads_year,
                   text, s3_key, expense_data, verdict, phase,
                   clock, requests, uploads, put_object_calls, scan_answer, listing>>

InitCategory == UnitStart(Texts(CatFrags) \cup {<<>>}, {<<"t","e","s","t",".","t","x","t">>}, {FALSE})
SpecCategory == InitCategory /\ [][CallCategorize]_vars

\* Texts holding one date written in a given shape: a lead-in, the date, a tail
TwoDigits(n) == ZeroFill(StrOf(n), 2)
FourDigits(n) == ZeroFill(StrOf(n), 4)

Leads == {<<>>, <<"D","a","t","e",":"," ">>, <<"P","a","i","d"," ","o","n"," ">>}
Tails == {<<>>, <<"\n","T","o","t","a","l",":"," ","$","4",".","8","5">>}
Months == {1, 3, 2, 12}
Days == {1, 4, 15, 29, 31}
ShortYears == {0, 1, 24, 49, 50, 68, 69, 99}

\* MM/DD/YY
ShortYearDate(m, d, yy) == TwoDigits(m) \o <<"/">> \o TwoDigits(d) \o <<"/">> \o TwoDigits(yy)

\* the year a two-digit year stands for when the day is valid in either century
ValidInBothCenturies(m, d, yy) == ValidDate(1900 + yy, m, d) /\ ValidDate(2000 + yy, m, d)

ShortYearTexts ==
    {lead \o ShortYearDate(c[1], c[2], c[3]) \o tail :
        lead \in Leads, tail \in Tails,
        c \in {x \in Months \X Days \X ShortYears : ValidInBothCenturies(x[1], x[2], x[3])}}

InitShortYear == UnitStart(ShortYearTexts, {<<"t","e","s","t",".","t","x","t">>}, BOOLEAN)
SpecShortYear == InitShortYear /\ [][NextUnit]_vars

\* Texts holding one date written in one of the shapes of date_patterns
Shapes == {"MM/DD/YYYY", "MM-DD-YYYY", "YYYY/MM/DD", "YYYY-MM-DD", "MM/DD/YY", "MM-DD-YY"}
LongYears == {1999, 2024}

\* the calendar day y-m-d written in the given shape
Shaped(shape, m, d, y) ==
    CASE shape = "MM/DD/YYYY" -> TwoDigits(m) \o <<"/">> \o TwoDigits(d) \o <<"/">> \o FourDigits(y)
      [] shape = "MM-DD-YYYY" -> TwoDigits(m) \o <<"-">> \o TwoDigits(d) \o <<"-">> \o FourDigits(y)
      [] shape = "YYYY/MM/DD" -> FourDigits(y) \o <<"/">> \o TwoDigits(m) \o <<"/">> \o TwoDigits(d)
      [] shape = "YYYY-MM-DD" -> FourDigits(y) \o <<"-">> \o TwoDigits(m) \o <<"-">> \o TwoDigits(d)
      [] shape = "MM/DD/YY" -> TwoDigits(m) \o <<"/">> \o TwoDigits(d) \o <<"/">> \o TwoDigits(y % 100)
      [] shape = "MM-DD-YY" -> TwoDigits(m) \o <<"-">> \o TwoDigits(d) \o <<"-">> \o TwoDigits(y % 100)

ShapedTexts ==
    {lead \o Shaped(shape, c[1], c[2], c[3]) \o tail :
        lead \in Leads, tail \in Tails, shape \in Shapes,
        c \in {x \in Months \X Days \X LongYears : ValidDate(x[3], x[1], x[2])}}

InitShapes == UnitStart(ShapedTexts, {<<"t","e","s","t",".","t","x","t">>}, {FALSE})
SpecShapes == InitShapes /\ [][NextUnit]_vars

\* Texts holding one slash-separated date A/B/YYYY, read month-first or day-first
FirstFields == {1, 3, 4, 12, 13, 25, 31}
SecondFields == {1, 3, 4, 12, 13}
SlashYears == {1940, 1999, 2024}

SlashDate(a, b, y) == TwoDigits(a) \o <<"/">> \o TwoDigits(b) \o <<"/">> \o FourDigits(y)

SlashTexts ==
    {lead \o SlashDate(a, b, y) \o tail :
        lead \in Leads, tail \in Tails, a \in FirstFields, b \in SecondFields, y \in SlashYears}

InitSlash == UnitStart(SlashTexts, {<<"t","e","s","t",".","t","x","t">>}, {FALSE})
SpecSlash == InitSlash /\ [][NextUnit]_vars

\* Texts holding one date written with a four-digit year, on both sides of
\* the year 1950
LongYearShapes == {"MM/DD/YYYY", "MM-DD-YYYY", "YYYY-MM-DD"}
OldAndNewYears == {1900, 1940, 1949, 1950, 1999, 2024}

LongYearTexts ==
    {lead \o Shaped(shape, c[1], c[2], c[3]) \o tail :
        lead \in Leads, tail \in Tails, shape \in LongYearShapes,
        c \in {x \in Months \X Days \X OldAndNewYears : ValidDate(x[3], x[1], x[2])}}

InitLongYear == UnitStart(LongYearTexts, {<<"t","e","s","t",".","t","x","t">>}, {FALSE})
SpecLongYear == InitLongYear /\ [][NextUnit]_vars

\* Texts around the raw_text limit, and a second call on the same text
Filler(n) == [i \in 1..n |-> "x"]

LongHead == <<"S","t","a","r","b","u","c","k","s"," ","C","o","f","f","e","e","\n","T","o","t","a","l",":"," ","$","4",".","8","5"," ","0","1","/","1","5","/","2","0","2","4","\n">>

LongTexts ==
    {LongHead \o Filler(RawTextMax - Len(LongHead) + extra) : extra \in {0 - 1, 0, 1, 20}}

\* result = extract_expense_info(text, s3_key), once more
CallExtractAgain ==
    /\ phase = "extracted"
    /\ expense_data' = extract_expense_info(text, s3_key, uuid_next, today, pads_year)
    /\ uuid_next' = uuid_next + 1
    /\ phase' = "extracted_again"
    /\ UNCHANGED <<event, env, idx, key, table_ops, s3_reads, ocr_calls, outcomes,
                   processed_count, response, today, pads_year, text, s3_key, verdict, cat_log,
                   clock, requests, uploads, put_object_calls, scan_answer, listing>>

NextAssemble == CallExtract \/ CallExtractAgain

InitAssemble == UnitStart(Texts(RecordFrags) \cup LongTexts, Keys, {TRUE})
SpecAssemble == InitAssemble /\ [][NextAssemble]_vars

----------------------------------------------------------------------------
(* upload_api.lambda_handler *)

\* What json.loads(raw_body) gives: an object with or without the fields
\* filename and content, an array of strings, a string, a number or null.
JsonObject(filename, content) ==
    [t |-> "object", filename |-> filename, content |-> content, items |-> {}, s |-> <<>>]
JsonArray(items) ==
    [t |-> "array", filename |-> Absent, content |-> Absent, items |-> items, s |-> <<>>]
JsonString(s) ==
    [t |-> "string", filename |-> Absent, content |-> Absent, items |-> {}, s |-> s]
JsonNumber == [t |-> "number", filename |-> Absent, content |-> Absent, items |-> {}, s |-> <<>>]
JsonNull == [t |-> "null", filename |-> Absent, content |-> Absent, items |-> {}, s |-> <<>>]

\* the request event: the HTTP method and the raw body ("empty": absent or '',
\* "malformed": json.loads raises JSONDecodeError, "json": it gives `value`)
Request(method, kind, value) == [method |-> method, kind |-> kind, value |-> value]

\* `name in body` for what json.loads gave: key of an object, element of an
\* array, substring of a string; TypeError for a number or null
HasName(body, name) ==
    CASE body.t = "object" -> Return(PyBool((IF name = "filename" THEN body.filename ELSE body.content) # Absent))
      [] body.t = "array" -> Return(PyBool((IF name = "filename" THEN <<"f","i","l","e","n","a","m","e">> ELSE <<"c","o","n","t","e","n","t">>) \in body.items))
      [] body.t = "string" -> Return(PyBool(Contains(body.s, IF name = "filename" THEN <<"f","i","l","e","n","a","m","e">> ELSE <<"c","o","n","t","e","n","t">>)))
      [] OTHER -> Raise("TypeError")

allowed_extensions == <<<<".","j","p","g">>, <<".","j","p","e","g">>, <<".","p","n","g">>, <<".","p","d","f">>, <<".","t","x","t">>, <<".","t","e","x","t">>>>

\* a variant that compares the extension as written
IsAllowedFilename_case_sensitive(filename) ==
    \E i \in 1..Len(allowed_extensions) : EndsWith(filename, allowed_extensions[i])

\* any(filename.lower().endswith(ext) for ext in allowed_extensions)
IsAllowedFilename(filename) ==
    \E i \in 1..Len(allowed_extensions) : EndsWith(lower(filename), allowed_extensions[i])

\* the second of the day at which the clock starts
StartSecond == 43258

\* datetime.now().strftime('%Y%m%d_%H%M%S'), c seconds after the start
Timestamp(now, c) ==
    FourDigits(now.year) \o TwoDigits(now.month) \o TwoDigits(now.day) \o <<"_">>
    \o TwoDigits(((StartSecond + c) \div 3600) % 24)
    \o TwoDigits(((StartSecond + c) \div 60) % 60)
    \o TwoDigits((StartSecond + c) % 60)

\* f"uploads/{timestamp}_{filename}"
UploadKey(timestamp, filename) == <<"u","p","l","o","a","d","s","/">> \o timestamp \o <<"_">> \o filename

BASE64 == UPPER \o LOWER \o DIGITS \o <<"+", "/">>

IsBase64Char(c) == \E i \in 1..Len(BASE64) : BASE64[i] = c

\* binascii's scan of s from position i, q data characters into the current
\* group of four and after `pads` consecutive '=': characters outside the
\* alphabet are dropped, enough padding ends the data, and the data must end on
\* a whole group
RECURSIVE Base64Scan(_, _, _, _)
Base64Scan(s, i, q, pads) ==
    IF i > Len(s) THEN q = 0
    ELSE IF s[i] = "=" THEN (IF q >= 2 /\ q + pads + 1 >= 4 THEN TRUE
                             ELSE Base64Scan(s, i + 1, q, pads + 1))
    ELSE IF IsBase64Char(s[i]) THEN Base64Scan(s, i + 1, (q + 1) % 4, 0)
    ELSE Base64Scan(s, i + 1, q, pads)

\* base64.b64decode(file_content): the bytes, kept as the content they decode,
\* or TypeError for what is not a string and binascii.Error for a string that
\* does not decode
b64decode(file_content) ==
    IF file_content.t # "str" THEN Raise("TypeError")
    ELSE IF Base64Scan(file_content.s, 1, 0, 0)
    THEN Return([encoding |-> "base64", of |-> file_content.s])
    ELSE Raise("Error")

\* file_content.encode('utf-8')
encode(s) == [encoding |-> "utf-8", of |-> s]

NoData == [encoding |-> "none", of |-> <<>>]

content_types == [jpg |-> "image/jpeg", jpeg |-> "image/jpeg", png |-> "image/png",
                  pdf |-> "application/pdf", txt |-> "text/plain", text |-> "text/plain"]

\* content_types.get(filename.lower().split('.')[-1], 'application/octet-stream')
get_content_type(filename) ==
    LET parts == split(lower(filename), ".")
        extension == parts[Len(parts)]
    IN IF extension = <<"j","p","g">> THEN content_types.jpg
       ELSE IF extension = <<"j","p","e","g">> THEN content_types.jpeg
       ELSE IF extension = <<"p","n","g">> THEN content_types.png
       ELSE IF extension = <<"p","d","f">> THEN content_types.pdf
       ELSE IF extension = <<"t","x","t">> THEN content_types.txt
       ELSE IF extension = <<"t","e","x","t">> THEN content_types.text
       ELSE "application/octet-stream"

\* how far an invocation has got: "waiting" before it runs, "uploading" once
\* it holds its key and data and is about to call put_object, "done" once it
\* has returned `status` (with the error message of its body, or "")
Invocation(pc, status, error, s3_key_, file_data, content_type) ==
    [pc |-> pc, status |-> status, error |-> error, s3_key |-> s3_key_,
     file_data |-> file_data, content_type |-> content_type]

Waiting == Invocation("waiting", 0, "", <<>>, NoData, "")

Returned(status, error) == Invocation("done", status, error, <<>>, NoData, "")

\* the outer `except Exception`
RequestProcessingFailed == Returned(500, "Request processing failed")

\* lines 67-79: decode the content, or take it as plain text, or refuse it
Decoded(filename, file_content, s3_key_, decoded) ==
    IF ~decoded.raised
    THEN Invocation("uploading", 0, "", s3_key_, decoded.val, get_content_type(filename))
    ELSE IF file_content.t = "str" /\ ~OccursAt(file_content.s, 1, <<"d","a","t","a",":">>)
    THEN Invocation("uploading", 0, "", s3_key_, encode(file_content.s), get_content_type(filename))
    ELSE Returned(400, "Invalid file content encoding")

\* lines 47-79, for a body in which both names were found
WithFields(body, now, c, client_raises) ==
    IF body.t # "object" THEN RequestProcessingFailed
    ELSE IF body.filename.t # "str" THEN RequestProcessingFailed
    ELSE IF ~IsAllowedFilename(body.filename.s) THEN Returned(400, "Unsupported file type")
    ELSE IF client_raises THEN RequestProcessingFailed
    ELSE Decoded(body.filename.s, body.content,
                 UploadKey(Timestamp(now, c), body.filename.s), b64decode(body.content))

\* lines 39-45, given what the two membership tests gave
FieldsChecked(body, now, c, client_raises, has_filename, has_content) ==
    IF has_filename.raised THEN RequestProcessingFailed
    ELSE IF has_filename.val = PyFalse THEN Returned(400, "Missing filename or content")
    ELSE IF has_content.raised THEN RequestProcessingFailed
    ELSE IF has_content.val = PyFalse THEN Returned(400, "Missing filename or content")
    ELSE WithFields(body, now, c, client_raises)

\* lines 16-79 of upload_api.lambda_handler, at c seconds past the start:
\* the response, or the invocation about to call put_object
HandleUpload(request, now, c, client_raises) ==
    IF request.method = "OPTIONS" THEN Returned(200, "")
    ELSE IF request.kind = "empty" THEN Returned(400, "Empty request body")
    ELSE IF request.kind = "malformed" THEN Returned(400, "Invalid JSON format")
    ELSE FieldsChecked(request.value, now, c, client_raises,
                       HasName(request.value, "filename"), HasName(request.value, "content"))

\* s3_client.put_object(Bucket=..., Key=..., Body=..., ContentType=...)
PutObject(i, u, ok) ==
    [request |-> i, Key |-> u.s3_key, Body |-> u.file_data, ContentType |-> u.content_type, ok |-> ok]

\* lines 82-106: 200 when put_object returns, 500 when it raises
AfterPut(u, ok) ==
    IF ok THEN Invocation("done", 200, "", u.s3_key, u.file_data, u.content_type)
    ELSE Invocation("done", 500, "Upload failed", u.s3_key, u.file_data, u.content_type)

MaxRequests == 2
MaxClock == 1

\* the i-th invocation runs up to the put_object call
Receive(i) ==
    /\ uploads[i].pc = "waiting"
    /\ \E client_raises \in BOOLEAN :
        uploads' = [uploads EXCEPT ![i] = HandleUpload(requests[i], today, clock, client_raises)]
    /\ UNCHANGED <<clock, requests, put_object_calls>>

\* the i-th invocation calls put_object and returns
Upload(i) ==
    /\ uploads[i].pc = "uploading"
    /\ \E ok \in BOOLEAN :
        /\ put_object_calls' = Append(put_object_calls, PutObject(i, uploads[i], ok))
        /\ uploads' = [uploads EXCEPT ![i] = AfterPut(uploads[i], ok)]
    /\ UNCHANGED <<clock, requests>>

\* a second passes
Tick ==
    /\ clock < MaxClock
    /\ clock' = clock + 1
    /\ UNCHANGED <<requests, uploads, put_object_calls>>

\* the variables the upload API leaves alone
PipelineUnchanged ==
    UNCHANGED <<event, env, idx, key, table_ops, s3_reads, ocr_calls, outcomes,
                processed_count, response, uuid_next, today, pads_year,
                text, s3_key, expense_data, verdict, phase, cat_log,
                scan_answer, listing>>

Filenames == {<<"r",".","t","x","t">>, <<"P","h","o","t","o",".","P","n","G">>, <<"n","o","t","e","s",".","d","o","c","x">>}
Contents == {PyStr(<<"a","G","k","=">>), PyStr(<<"T","o","t","a","l",":"," ","$","4",".","8","5">>), PyStr(<<"d","a","t","a",":","t","e","x","t","/","p","l","a","i","n",";","b","a","s","e","6","4",",","a","G","k">>)}

UploadRequests ==
    {Request("OPTIONS", "empty", JsonNull), Request("POST", "empty", JsonNull),
     Request("POST", "malformed", JsonNull), Request("POST", "json", JsonNull),
     Request("POST", "json", JsonObject(Absent, PyStr(<<"a","G","k","=">>))),
     Request("POST", "json", JsonObject(PyStr(<<"r",".","t","x","t">>), Absent))}
    \cup {Request("POST", "json", JsonObject(PyStr(f), c)) : f \in Filenames, c \in Contents}

RequestBatches == UNION {SeqsOfLen(UploadRequests, n) : n \in 0..MaxRequests}

InitUpload ==
    /\ HandlerIdle
    /\ UnitIdle
    /\ uuid_next = 0
    /\ today = Today
    /\ pads_year = FALSE
    /\ clock = 0
    /\ requests \in RequestBatches
    /\ uploads = [i \in 1..Len(requests) |-> Waiting]
    /\ put_object_calls = <<>>
    /\ scan_answer = NoRecord
    /\ listing = NoRecord

NextUpload ==
    \/ \E i \in 1..Len(requests) : Receive(i) /\ PipelineUnchanged
    \/ \E i \in 1..Len(requests) : Upload(i) /\ PipelineUnchanged
    \/ Tick /\ PipelineUnchanged

SpecUpload == InitUpload /\ [][NextUpload]_vars

\* One upload followed by the S3 notification that starts process_document
PipelineFilenames ==
    {<<"r",".","t","x","t">>, <<"a",".","T","E","X","T">>, <<"P","h","o","t","o",".","P","n","G">>, <<"A",".","J","P","G">>, <<"x",".","j","p","e","g">>, <<"r","e","c","e","i","p","t",".","p","d","f">>,
     <<"n","o","t","e","s",".","d","o","c","x">>, <<"s","c","a","n",".","p","d","f",".","b","a","k">>, <<"t","x","t">>, <<"j","p","g">>, <<".","p","d","f">>, <<>>}

PipelineRequests ==
    {Request("POST", "json", JsonObject(PyStr(f), c)) :
        f \in PipelineFilenames, c \in {PyStr(<<"a","G","k","=">>), PyStr(<<"T","o","t","a","l",":"," ","$","4",".","8","5">>)}}

\* what the collaborators of process_document answer for the uploaded object
ObjectAnswers ==
    {Answers(FALSE, <<"S","t","a","r","b","u","c","k","s"," ","C","o","f","f","e","e","\n","T","o","t","a","l",":"," ","$","4",".","8","5">>, FALSE,
             <<Block("LINE", <<"L","u","n","c","h"," ","m","e","n","u">>), Block("LINE", <<"T","o","t","a","l",":"," ","$","1","2",".","0","0">>)>>, FALSE),
     Answers(TRUE, <<>>, TRUE, NoBlocks, FALSE)}

InitPipeline ==
    /\ HandlerIdle
    /\ UnitIdle
    /\ uuid_next = 0
    /\ today = Today
    /\ pads_year = FALSE
    /\ clock = 0
    /\ requests \in {<<r>> : r \in PipelineRequests}
    /\ uploads = <<Waiting>>
    /\ put_object_calls = <<>>
    /\ scan_answer = NoRecord
    /\ listing = NoRecord

\* the bucket notifies process_document of the object a put_object call stored
ObjectCreated ==
    /\ ~event.has_records
    /\ put_object_calls # <<>>
    /\ put_object_calls[1].ok
    /\ event' = [has_records |-> TRUE,
                 Records |-> <<[wellformed |-> TRUE, key |-> put_object_calls[1].Key]>>]
    /\ \E answers \in ObjectAnswers : env' = <<answers>>
    /\ UNCHANGED <<idx, key, table_ops, s3_reads, ocr_calls, outcomes,
                   processed_count, response, uuid_next, today, pads_year,
                   text, s3_key, expense_data, verdict, phase, cat_log,
                   clock, requests, uploads, put_object_calls, scan_answer, listing>>

NextPipeline ==
    \/ Receive(1) /\ PipelineUnchanged
    \/ Upload(1) /\ PipelineUnchanged
    \/ ObjectCreated
    \/ ProcessRecord
    \/ ProcessingComplete

SpecPipeline == InitPipeline /\ [][NextPipeline]_vars

----------------------------------------------------------------------------
(* get_expenses.lambda_handler *)

\* an item of the ExpenseRecords table; a field the item lacks is Absent
Item(expense_id, amount, date) == [expense_id |-> expense_id, amount |-> amount, date |-> date]

PyFloat(n, e) == [t |-> "float", s |-> <<>>, n |-> n, e |-> e]

\* float(v): the number a Decimal or an all-digit string stands for,
\* ValueError for another string, TypeError for what is not a number
float(v) ==
    CASE v.t = "Decimal" -> Return(PyFloat(v.n, v.e))
      [] v.t = "int" -> Return(PyFloat(v.n, 0))
      [] v.t = "str" -> (IF v.s # <<>> /\ \A i \in 1..Len(v.s) : IsDigit(v.s[i])
                         THEN Return(PyFloat(IntOf(v.s), 0))
                         ELSE Raise("ValueError"))
      [] OTHER -> Raise("TypeError")

\* lines 29-31: expense['amount'] = float(expense['amount']) for the items from
\* position i on; the first exception ends the loop
RECURSIVE ConvertAmounts(_, _)
ConvertAmounts(expenses, i) ==
    IF i > Len(expenses) THEN Return(expenses)
    ELSE IF expenses[i].amount = Absent THEN ConvertAmounts(expenses, i + 1)
    ELSE IF float(expenses[i].amount).raised THEN float(expenses[i].amount)
    ELSE ConvertAmounts([expenses EXCEPT ![i].amount = float(expenses[i].amount).val], i + 1)

\* x.get('date', '')
DateKey(x) == IF x.date = Absent THEN PyStr(<<>>) ELSE x.date

\* the characters of the model in code-point order
CodePoints == <<"\n", " ", "$", "+", "-", ".", "/">> \o DIGITS \o <<":", "=">> \o UPPER \o <<"_">> \o LOWER

Ord(c) == CHOOSE i \in 1..Len(CodePoints) : CodePoints[i] = c

\* a < b for two strings
RECURSIVE StrLess(_, _)
StrLess(a, b) ==
    IF b = <<>> THEN FALSE
    ELSE IF a = <<>> THEN TRUE
    ELSE IF a[1] = b[1] THEN StrLess(Tail(a), Tail(b))
    ELSE Ord(a[1]) < Ord(b[1])

\* a < b for two sort keys of the same type
KeyLess(a, b) == IF a.t = "str" THEN StrLess(a.s, b.s) ELSE a.n < b.n

\* a variant that puts the earliest date first
RECURSIVE InsertByDate_ascending(_, _)
InsertByDate_ascending(sorted, x) ==
    IF sorted = <<>> THEN <<x>>
    ELSE IF KeyLess(DateKey(x), DateKey(sorted[1])) THEN <<x>> \o sorted
    ELSE <<sorted[1]>> \o InsertByDate_ascending(Tail(sorted), x)

\* x placed in a list sorted by date descending, behind the items of the
\* same date
RECURSIVE InsertByDate(_, _)
InsertByDate(sorted, x) ==
    IF sorted = <<>> THEN <<x>>
    ELSE IF KeyLess(DateKey(sorted[1]), DateKey(x)) THEN <<x>> \o sorted
    ELSE <<sorted[1]>> \o InsertByDate(Tail(sorted), x)

RECURSIVE SortedByDate(_, _)
SortedByDate(expenses, n) ==
    IF n = 0 THEN <<>> ELSE InsertByDate(SortedByDate(expenses, n - 1), expenses[n])

\* expenses.sort(key=lambda x: x.get('date', ''), reverse=True): a stable sort;
\* TypeError when the keys are not all of one type
sort(expenses) ==
    IF \E i, j \in 1..Len(expenses) : DateKey(expenses[i]).t # DateKey(expenses[j]).t
    THEN Raise("TypeError")
    ELSE Return(SortedByDate(expenses, Len(expenses)))

\* json.dumps raises TypeError on a Decimal
Serializable(expenses) ==
    \A i \in 1..Len(expenses) :
        expenses[i].expense_id.t # "Decimal" /\ expenses[i].amount.t # "Decimal"
        /\ expenses[i].date.t # "Decimal"

\* what get_expenses.lambda_handler returns
Listed(statusCode, has_expenses, expenses) ==
    [statusCode |-> statusCode, has_expenses |-> has_expenses,
     expenses |-> expenses, count |-> Len(expenses)]

FailedToRetrieve == Listed(500, FALSE, <<>>)

\* lines 33-43
SortAndReturn(sorted) ==
    IF sorted.raised THEN FailedToRetrieve
    ELSE IF ~Serializable(sorted.val) THEN FailedToRetrieve
    ELSE Listed(200, TRUE, sorted.val)

\* lines 28-43
ConvertAndReturn(converted) ==
    IF converted.raised THEN FailedToRetrieve
    ELSE SortAndReturn(sort(converted.val))

\* get_expenses.lambda_handler, given what table.scan() answers
get_expenses(request, scan) ==
    IF request.method = "OPTIONS" THEN Listed(200, FALSE, <<>>)
    ELSE IF scan.raises THEN FailedToRetrieve
    ELSE ConvertAndReturn(ConvertAmounts(scan.Items, 1))

MaxItems == 3

TableItems ==
    {Item(PyStr(<<"e","1">>), PyDecimal(485, 2), PyStr(<<"2","0","2","4","-","0","1","-","1","5">>)),
     Item(PyStr(<<"e","2">>), PyDecimal(1200, 2), PyStr(<<"2","0","2","4","-","0","3","-","1","0">>)),
     Item(PyStr(<<"e","3">>), PyDecimal(4500, 2), Absent),
     Item(PyStr(<<"e","4">>), PyDecimal(1575, 2), PyStr(<<"2","0","2","4","-","0","1","-","1","5">>)),
     Item(PyStr(<<"e","5">>), Absent, PyStr(<<"2","0","2","3","-","1","2","-","3","1">>)),
     Item(PyStr(<<"e","6">>), PyStr(<<"a","b","c">>), PyStr(<<"2","0","2","4","-","0","1","-","1","5">>)),
     Item(PyStr(<<"e","7">>), PyDecimal(100, 2), PyDecimal(20240115, 0)),
     Item(PyStr(<<"e","8">>), PyDecimal(250, 2), PyStr(<<"1","5","0","-","0","1","-","1","5">>))}

\* what table.scan() answers: response['Items'], or an exception
ScanAnswer(raises, items) == [raises |-> raises, Items |-> items]

Scans ==
    {ScanAnswer(TRUE, <<>>)}
    \cup {ScanAnswer(FALSE, items) : items \in UNION {SeqsOfLen(TableItems, n) : n \in 0..MaxItems}}

NotListed == Listed(0, FALSE, <<>>)

InitListing ==
    /\ HandlerIdle
    /\ UnitIdle
    /\ uuid_next = 0
    /\ today = Today
    /\ pads_year = FALSE
    /\ clock = 0
    /\ requests \in {<<Request(m, "empty", JsonNull)>> : m \in {"GET", "OPTIONS"}}
    /\ uploads = <<>>
    /\ put_object_calls = <<>>
    /\ scan_answer \in Scans
    /\ listing = NotListed

\* the listing is requested
GetExpenses ==
    /\ listing = NotListed
    /\ listing' = get_expenses(requests[1], scan_answer)
    /\ UNCHANGED <<event, env, idx, key, table_ops, s3_reads, ocr_calls, outcomes,
                   processed_count, response, uuid_next, today, pads_year,
                   text, s3_key, expense_data, verdict, phase, cat_log,
                   clock, requests, uploads, put_object_calls, scan_answer>>

SpecListing == InitListing /\ [][GetExpenses]_vars

----------------------------------------------------------------------------
(* Properties *)

CategoryNames == {food, transport, office, travel, healthcare, other}

AllFields == {"expense_id", "amount", "category", "description", "date",
              "processed_at", "s3_key", "raw_text"}

\* a string of the form YYYY-MM-DD that names a calendar day
IsCalendarDate(s) ==
    /\ Len(s) = 10
    /\ s[5] = "-" /\ s[8] = "-"
    /\ \A i \in {1, 2, 3, 4, 6, 7, 9, 10} : IsDigit(s[i])
    /\ ValidDate(IntOf(SubSeq(s, 1, 4)), IntOf(SubSeq(s, 6, 7)), IntOf(SubSeq(s, 9, 10)))

\* the five required fields are present and non-empty
RequiredFieldsPresent(item) ==
    \A i \in 1..Len(required_fields) :
        required_fields[i] \in DOMAIN item /\ Truthy(item[required_fields[i]])

\* the amount is a number above zero
PositiveAmount(item) == item["amount"].t = "Decimal" /\ item["amount"].n > 0

\* the date is a string of the form YYYY-MM-DD that names a calendar day
CalendarDated(item) == item["date"].t = "str" /\ IsCalendarDate(item["date"].s)

\* the data-model invariants of an accepted record
SatisfiesDataModel(item) ==
    /\ RequiredFieldsPresent(item)
    /\ PositiveAmount(item)
    /\ item["category"].t = "str" /\ item["category"].s \in CategoryNames
    /\ CalendarDated(item)

\* number of put_item calls made for the i-th record of the event
PutCalls(i) == Cardinality({j \in 1..Len(table_ops) : table_ops[j].record = i})

\* the text the collaborators give for the i-th record
DocumentText(i) == ReadText(event.Records[i].key, env[i])

\* the i-th record is a readable, non-blank supported document whose extracted
\* record passes validate_expense_data
Accepted(i) ==
    /\ event.Records[i].wellformed
    /\ IsDocumentKey(event.Records[i].key)
    /\ ~DocumentText(i).raised
    /\ strip(DocumentText(i).val.s) # <<>>
    /\ validate_expense_data(
          extract_expense_info(DocumentText(i).val.s, event.Records[i].key, 0,
                               today, pads_year).val).val = PyTrue

\* C1: a failing record never aborts the batch: once the handler has returned
\* after entering the loop, every record of the event has been iterated.
C1_FailureIsolated ==
    (response # 0 /\ outcomes # <<>>) => Len(outcomes) = Len(event.Records)

\* C2: the handler starts with no table operation, and iterating a record
\* adds exactly one put_item call when the record is a document whose extracted
\* record passes validation and none otherwise; the calls made for the other
\* records never change, and put_item is the only operation ever issued.
C2_OnePutPerAcceptedRecord ==
    /\ table_ops = <<>>
    /\ [][/\ \A j \in 1..Len(table_ops') : table_ops'[j].op = "put_item"
          /\ \A i \in 1..Len(event.Records) :
              PutCalls(i)' = IF i = idx' /\ idx' # idx
                               THEN (IF Accepted(i) THEN 1 ELSE 0)
                               ELSE PutCalls(i)]_vars

\* C2 witness: a finished batch holding a saved, a rejected and a skipped document
C2_Witness ==
    /\ response = 200
    /\ \E i, j, k \in 1..Len(outcomes) :
        /\ outcomes[i] = "saved" /\ PutCalls(i) = 1
        /\ outcomes[j] = "invalid" /\ PutCalls(j) = 0
        /\ outcomes[k] = "unsupported" /\ PutCalls(k) = 0

\* C3: every record handed to put_item satisfies the data-model invariants.
C3_SavedRecordsSatisfyDataModel ==
    \A j \in 1..Len(table_ops) : SatisfiesDataModel(table_ops[j].Item)

\* C3 witness: a record was handed to put_item next to a rejected document
C3_Witness ==
    /\ \E j \in 1..Len(table_ops) : table_ops[j].ok
    /\ \E i \in 1..Len(outcomes) : outcomes[i] = "invalid"

\* C4: validate_expense_data accepts a hand-built record exactly when its five
\* required fields are present and non-empty, its amount is positive and its
\* date is a YYYY-MM-DD calendar date.
C4_ValidatorDecidesDataModel ==
    (phase = "validated" /\ expense_data.val # PyNone) =>
        (verdict.val = PyTrue <=> /\ RequiredFieldsPresent(expense_data.val)
                                  /\ PositiveAmount(expense_data.val)
                                  /\ CalendarDated(expense_data.val))

\* C5: round trip: an extracted record with a positive amount, a category, a
\* non-empty description and a date is accepted by validate_expense_data.
C5_RoundTripAccepts ==
    (/\ phase = "round_trip"
     /\ expense_data.val["amount"].n > 0
     /\ expense_data.val["category"].s # <<>>
     /\ expense_data.val["description"].s # <<>>
     /\ expense_data.val["date"].s # <<>>) => verdict.val = PyTrue

\* C6: for every text containing `Total: $4.85`, the extracted amount is 4.85.
C6_LabeledTotalWins ==
    (phase = "extracted" /\ Contains(text, <<"T","o","t","a","l",":"," ","$","4",".","8","5">>)) =>
        expense_data.val["amount"] = PyDecimal(485, 2)

\* C7: the extracted description has at most 50 characters.
C7_DescriptionBounded ==
    phase = "extracted" => Len(expense_data.val["description"].s) <= DescMax

\* C8: extract_date returns, without raising, a YYYY-MM-DD calendar date.
C8_DateAlwaysValid ==
    phase = "extracted" =>
        ~expense_data.raised /\ IsCalendarDate(expense_data.val["date"].s)

NothingToFind(s) ==
    /\ \A i \in 1..Len(s) : ~IsDigit(s[i])
    /\ \A c \in 1..Len(categories) : ~AnyKeyword(c, lower(s))

\* C10: extract_expense_info returns a record with all eight fields (the
\* defaults 0.00, other, today where nothing is found) and never raises;
\* validate_expense_data returns True or False on any record and never raises.
C10_CoreNeverRaises ==
    /\ phase \in {"extracted", "round_trip"} =>
        /\ ~expense_data.raised
        /\ DOMAIN expense_data.val = AllFields
        /\ NothingToFind(text) =>
            /\ expense_data.val["amount"] = PyDecimal(0, 2)
            /\ expense_data.val["category"].s = other
            /\ expense_data.val["date"].s = strftime(today, pads_year)
    /\ phase \in {"round_trip", "validated"} =>
        ~verdict.raised /\ verdict.val \in {PyTrue, PyFalse}

\* C10 witness: validate_expense_data has turned an exception raised on a
\* malformed record into False
C10_Witness ==
    /\ phase = "validated"
    /\ verdict.val = PyFalse
    /\ verdict.printed = <<"Validation error", "TypeError">>

\* C11: a text whose date is written MM/DD/YY, with a valid month and day and a
\* two-digit year that read as 19YY lies below the 1950 cutoff, gives the date
\* 20YY-MM-DD.
C11_ShortYearInto2000s ==
    \A lead \in Leads, tail \in Tails, m \in Months, d \in Days, yy \in ShortYears :
        (/\ phase = "extracted"
         /\ ValidInBothCenturies(m, d, yy)
         /\ text = lead \o ShortYearDate(m, d, yy) \o tail
         /\ 1900 + yy < YearCutoff) =>
            expense_data.val["date"].s =
                <<"2","0">> \o TwoDigits(yy) \o <<"-">> \o TwoDigits(m) \o <<"-">> \o TwoDigits(d)

\* C11 witness: 'Date: 01/15/24' has given '2024-01-15'
C11_Witness ==
    /\ phase = "extracted"
    /\ text = <<"D","a","t","e",":"," ","0","1","/","1","5","/","2","4">>
    /\ expense_data.val["date"].s = <<"2","0","2","4","-","0","1","-","1","5">>

\* the file types the handler is documented to process
SupportedSuffixes == {<<".","t","x","t">>, <<".","t","e","x","t">>, <<".","p","d","f">>, <<".","j","p","g">>, <<".","j","p","e","g">>, <<".","p","n","g">>}

\* the key ends, case-insensitively, with a supported suffix
HasSupportedSuffix(k) ==
    \E x \in SupportedSuffixes :
        Len(k) >= Len(x) /\ lower(SubSeq(k, Len(k) - Len(x) + 1, Len(k))) = x

\* C12: iterating a record whose key has no supported suffix reads nothing
\* from storage, calls no OCR, extracts nothing and puts nothing, and leaves the
\* loop running; every record of the batch is iterated and the documents that
\* pass validation are still saved, one put_item each.
C12_UnsupportedSkipped ==
    /\ [](/\ response = 200 => Len(outcomes) = Len(event.Records)
          /\ \A i \in 1..idx : Accepted(i) => PutCalls(i) = 1)
    /\ [][(idx' # idx /\ ~HasSupportedSuffix(event.Records[idx'].key)) =>
            /\ s3_reads' = s3_reads
            /\ ocr_calls' = ocr_calls
            /\ uuid_next' = uuid_next
            /\ table_ops' = table_ops
            /\ processed_count' = processed_count
            /\ outcomes' = Append(outcomes, "unsupported")
            /\ response' = 0]_vars

\* C12 witness: a finished batch of three files in which the two supported
\* ones were saved beside a skipped one
C12_Witness ==
    /\ response = 200
    /\ Len(outcomes) = 3
    /\ processed_count = 2
    /\ \E i \in 1..3 : ~HasSupportedSuffix(event.Records[i].key) /\ outcomes[i] = "unsupported"

\* what the handler does with the i-th record when that record is the only one
\* of its event
Alone(i) == Iteration(1, event.Records[i], env[i], Unbound, 0, today, pads_year)

\* the fields of a saved record that extraction derives from the document
DerivedFields == {"amount", "category", "description", "date"}

\* the derived fields of the records a sequence of put_item calls was given
PutFields(ops) ==
    [j \in 1..Len(ops) |-> [f \in DerivedFields |-> ops[j].Item[f]]]

OpsFor(i) == SelectSeq(table_ops, LAMBDA op : op.record = i)

\* C13: once the handler has returned, every document of the batch has the
\* outcome, and the saved amount, category, description and date, that it has
\* when it is processed alone, whatever the other records of the batch are.
C13_DocumentsIndependent ==
    (response # 0 /\ outcomes # <<>>) =>
        \A i \in 1..Len(event.Records) :
            event.Records[i].wellformed =>
                /\ i <= Len(outcomes)
                /\ outcomes[i] = Alone(i).outcome
                /\ PutFields(OpsFor(i)) = PutFields(Alone(i).ops)

\* the record of test_validation with its amount set to Decimal('0.00')
ZeroAmountRecord ==
    [expense_id |-> PyStr(<<"t","e","s","t","-","1","2","3">>), amount |-> PyDecimal(0, 2),
     category |-> PyStr(food), description |-> PyStr(<<"C","o","f","f","e","e"," ","S","h","o","p">>),
     date |-> PyStr(<<"2","0","2","4","-","0","1","-","1","5">>)]

\* C14: a record with amount 0.00 and every other field valid is rejected, and
\* the check that rejects it is the amount check, not the required-fields
\* check and not the date check.
C14_ZeroAmountFailsAmountCheck ==
    (phase = "validated" /\ expense_data.val = ZeroAmountRecord) =>
        /\ verdict.val = PyFalse
        /\ verdict.printed # <<>>
        /\ verdict.printed[1] = "Invalid amount"

\* the rules, in order, whose leftmost match in s is a strictly positive number
PositiveRules(s) ==
    {p \in 1..4 : AmountSearch(p, s) # <<>> /\ Decimal(AmountSearch(p, s)).n > 0}

\* amounts the source returns for texts in which several rules match
AmountExamples == {
    <<<<"A","m","o","u","n","t"," ","$","4","5",".","0","0"," ","T","o","t","a","l",":"," ","$","4",".","8","5">>, PyDecimal(485, 2)>>,
    <<<<"T","o","t","a","l",":"," ","$","0",".","0","0"," ","A","m","o","u","n","t"," ","$","4","5",".","0","0">>, PyDecimal(4500, 2)>>,
    <<<<"T","o","t","a","l",":"," ","$","0",".","0","0"," ","T","o","t","a","l",":"," ","$","4",".","8","5">>, PyDecimal(0, 2)>>,
    <<<<"T","o","t","a","l",":"," ","$","0",".","0","0"," ","$","0",".","3","5">>, PyDecimal(0, 2)>>,
    <<<<"T","o","t","a","l",":"," ","$","0",".","0","0","\n","1","5",".","7","5">>, PyDecimal(1575, 2)>>,
    <<<<"1","5",".","7","5"," ","$","0",".","3","5">>, PyDecimal(35, 2)>>,
    <<<<"$","0",".","3","5"," ","1","5",".","7","5">>, PyDecimal(35, 2)>>,
    <<<<"T","O","T","A","L"," ","7">>, PyDecimal(7, 0)>>,
    <<<<"N","o"," ","a","m","o","u","n","t"," ","h","e","r","e">>, PyDecimal(0, 2)>> }

\* C15: the amount is the value of the leftmost match of the first rule, in
\* the order Total, Amount, currency symbol, bare number, whose leftmost match
\* is strictly positive, and 0.00 when there is no such rule; it is never
\* negative.
C15_FirstPositiveRuleWins ==
    phase = "extracted" =>
        /\ expense_data.val["amount"] =
              IF PositiveRules(text) = {} THEN PyDecimal(0, 2)
              ELSE Decimal(AmountSearch(MinOf(PositiveRules(text)), text))
        /\ expense_data.val["amount"].n >= 0
        /\ \A x \in AmountExamples : text = x[1] => expense_data.val["amount"] = x[2]

\* C15 witness: the Total rule matched a zero amount, so the Amount rule, whose
\* match lies further right, gave the amount
C15_Witness ==
    /\ phase = "extracted"
    /\ text = <<"T","o","t","a","l",":"," ","$","0",".","0","0"," ","A","m","o","u","n","t"," ","$","4","5",".","0","0">>
    /\ expense_data.val["amount"] = PyDecimal(4500, 2)

\* C16: every extracted amount is a decimal with exactly two fractional digits.
C16_TwoFractionalDigits ==
    phase = "extracted" => expense_data.val["amount"].e = 2

\* the documented priority order of the categories
DeclaredOrder == <<food, transport, office, travel, healthcare>>

\* some keyword listed under the category called name is a substring of the
\* lower-cased text
KeywordOf(name, s) ==
    \E c \in 1..Len(categories) :
        /\ categories[c].name = name
        /\ \E k \in 1..Len(categories[c].keywords) : Contains(lower(s), categories[c].keywords[k])

\* categories the source returns for texts of the tests and for texts on which
\* several categories match
CategoryExamples == {
    <<<<"R","e","s","t","a","u","r","a","n","t"," ","p","a","r","k","i","n","g">>, food>>,
    <<<<"p","a","r","k","i","n","g"," ","R","e","s","t","a","u","r","a","n","t">>, food>>,
    <<<<"H","o","t","e","l"," ","C","V","S"," ","P","h","a","r","m","a","c","y">>, travel>>,
    <<<<"C","V","S"," ","P","h","a","r","m","a","c","y","\n","H","o","t","e","l">>, travel>>,
    <<<<"O","f","f","i","c","e"," ","s","u","p","p","l","i","e","s"," ","f","r","o","m"," ","S","t","a","p","l","e","s"," ","p","a","r","k","i","n","g">>, transport>>,
    <<<<"C","V","S"," ","P","h","a","r","m","a","c","y"," ","O","f","f","i","c","e"," ","s","u","p","p","l","i","e","s"," ","f","r","o","m"," ","S","t","a","p","l","e","s">>, office>>,
    <<<<"C","V","S"," ","P","h","a","r","m","a","c","y">>, healthcare>>,
    <<<<"R","a","n","d","o","m"," ","e","x","p","e","n","s","e">>, other>>,
    <<<<>>, other>> }

\* C17: every categorize_expense call returns the first category, in the order
\* food, transport, office, travel, healthcare, one of whose keywords is a
\* substring of the lower-cased text, and 'other' when there is none.
C17_FirstDeclaredCategoryWins ==
    \A i \in 1..Len(cat_log) :
        LET matching == {c \in 1..Len(DeclaredOrder) : KeywordOf(DeclaredOrder[c], cat_log[i].text)}
        IN  /\ cat_log[i].category =
                  IF matching = {} THEN other ELSE DeclaredOrder[MinOf(matching)]
            /\ \A x \in CategoryExamples :
                  cat_log[i].text = x[1] => cat_log[i].category = x[2]

\* C17 witness: 'parking Restaurant', where the transport keyword comes first
\* in the text, was categorized as food
C17_Witness ==
    \E i \in 1..Len(cat_log) :
        /\ cat_log[i].text = <<"p","a","r","k","i","n","g"," ","R","e","s","t","a","u","r","a","n","t">>
        /\ cat_log[i].category = food

\* the positions a at which a line of s starts
LineStarts(s) == {a \in 1..(Len(s) + 1) : a = 1 \/ s[a - 1] = "\n"}

\* the line of s that starts at a, trimmed
TrimmedLineAt(s, a) ==
    LET ends == {b \in a..(Len(s) + 1) : b = Len(s) + 1 \/ s[b] = "\n"}
    IN  strip(SubSeq(s, a, MinOf(ends) - 1))

\* the line begins with digits followed by '.', '-' or '/' and a digit
BeginsLikeDate(line) ==
    \E k \in 1..Len(line) :
        /\ \A j \in 1..k : IsDigit(line[j])
        /\ k + 2 <= Len(line)
        /\ line[k + 1] \in {".", "-", "/"}
        /\ IsDigit(line[k + 2])

\* the last '/'-separated segment of the key, underscores replaced by spaces
LastSegmentSpaced(k) ==
    LET slashes == {i \in 1..Len(k) : k[i] = "/"}
        from == IF slashes = {} THEN 1
                ELSE (CHOOSE i \in slashes : \A j \in slashes : j <= i) + 1
    IN  [i \in 1..(Len(k) - from + 1) |->
            IF k[from + i - 1] = "_" THEN " " ELSE k[from + i - 1]]

\* descriptions the source returns
DescriptionExamples == {
    <<<<"1","2","/","2","5","/","2","0","2","3"," ","1","0",":","4","2","\n","S","t","a","r","b","u","c","k","s"," ","C","o","f","f","e","e">>, <<"S","t","a","r","b","u","c","k","s"," ","C","o","f","f","e","e">>>>,
    <<<<"a","b","c","\n","1","2","3"," ","M","a","i","n"," ","S","t","r","e","e","t">>, <<"1","2","3"," ","M","a","i","n"," ","S","t","r","e","e","t">>>>,
    <<<<"a","b","c"," ","1","2","/","2","5","/","2","0","2","3"," ","1","0",":","4","2">>, <<"a","b","c"," ","1","2","/","2","5","/","2","0","2","3"," ","1","0",":","4","2">>>>,
    <<<<" "," "," ","\n","S","t","a","r","b","u","c","k","s"," ","C","o","f","f","e","e">>, <<"S","t","a","r","b","u","c","k","s"," ","C","o","f","f","e","e">>>>,
    <<<<"S","t","a","r","b","u","c","k","s"," ","C","o","f","f","e","e"," ","C","o","m","p","a","n","y"," ","S","t","o","r","e"," ","1","2","3","4"," ","a","t"," ","5","0","0"," ","M","a","i","n"," ","S","t","r","e","e","t"," ","W","e","s","t","\n","a","b","c">>,
      <<"S","t","a","r","b","u","c","k","s"," ","C","o","f","f","e","e"," ","C","o","m","p","a","n","y"," ","S","t","o","r","e"," ","1","2","3","4"," ","a","t"," ","5","0","0"," ","M","a","i","n"," ","S","t">>>> }

\* C18: the description is the first trimmed non-empty line, in order, that has
\* more than 5 characters and does not begin like a date, cut to 50 characters;
\* when no line qualifies it is the last '/'-separated segment of the source
\* reference with underscores replaced by spaces.
C18_FirstQualifyingLine ==
    phase = "extracted" =>
        LET good == {a \in LineStarts(text) :
                        /\ Len(TrimmedLineAt(text, a)) > 5
                        /\ ~BeginsLikeDate(TrimmedLineAt(text, a))}
            first == TrimmedLineAt(text, MinOf(good))
        IN  /\ expense_data.val["description"].s =
                  IF good = {} THEN LastSegmentSpaced(s3_key)
                  ELSE IF Len(first) > 50 THEN SubSeq(first, 1, 50)
                  ELSE first
            /\ \A x \in DescriptionExamples :
                  text = x[1] => expense_data.val["description"].s = x[2]

\* C18 witness: a date-like first line was passed over for the line after it
C18_Witness ==
    /\ phase = "extracted"
    /\ text = <<"1","2","/","2","5","/","2","0","2","3"," ","1","0",":","4","2","\n","S","t","a","r","b","u","c","k","s"," ","C","o","f","f","e","e">>
    /\ expense_data.val["description"].s = <<"S","t","a","r","b","u","c","k","s"," ","C","o","f","f","e","e">>

\* C19: a text whose only date-like substring is a valid calendar date written
\* in one of the shapes MM/DD/YYYY, MM-DD-YYYY, YYYY/MM/DD, YYYY-MM-DD, MM/DD/YY,
\* MM-DD-YY gives that same calendar date in YYYY-MM-DD form.
C19_ShapedDateRecovered ==
    \A lead \in Leads, tail \in Tails, shape \in Shapes,
       m \in Months, d \in Days, y \in LongYears :
        (/\ phase = "extracted"
         /\ ValidDate(y, m, d)
         /\ text = lead \o Shaped(shape, m, d, y) \o tail) =>
            expense_data.val["date"].s =
                FourDigits(y) \o <<"-">> \o TwoDigits(m) \o <<"-">> \o TwoDigits(d)

\* the calendar day y-m-d in YYYY-MM-DD form
IsoDate(y, m, d) == FourDigits(y) \o <<"-">> \o TwoDigits(m) \o <<"-">> \o TwoDigits(d)

\* C20: for a date A/B/YYYY with A and B both between 1 and 12 the result is
\* the month-first reading YYYY-A-B; the day-first reading YYYY-B-A is the
\* result only when A is above 12.
C20_MonthFirstPreferred ==
    \A lead \in Leads, tail \in Tails, a \in FirstFields, b \in SecondFields, y \in SlashYears :
        (phase = "extracted" /\ text = lead \o SlashDate(a, b, y) \o tail) =>
            /\ (a <= 12 /\ b <= 12) => expense_data.val["date"].s = IsoDate(y, a, b)
            /\ (a # b /\ expense_data.val["date"].s = IsoDate(y, b, a)) => a > 12

\* the dates some format of date_formats parses the capture c as
ParsesOf(c) ==
    {strptime(c, date_formats[f]).val :
        f \in {g \in 1..Len(date_formats) : ~strptime(c, date_formats[g]).raised}}

\* the patterns, in list order, whose leftmost capture in s some format parses
ParsingPatterns(s) ==
    {p \in 1..4 : DateSearch(p, s) # <<>> /\ ParsesOf(DateSearch(p, s)) # {}}

\* the string r renders the date d, in its own year or in the adjusted one
Renders(r, d, pads) ==
    \/ r = strftime(d, pads)
    \/ r = strftime(Date(d.year + CenturyShift, d.month, d.day), pads)

\* C21: the result is determined by the first pattern, in list order, whose
\* leftmost capture some format parses, wherever in the text the captures of
\* the later patterns lie; it is today's date only when no pattern has a
\* capture that a format parses.
C21_FirstParsingPatternDecides ==
    phase = "extracted" =>
        IF ParsingPatterns(text) = {}
        THEN expense_data.val["date"].s = strftime(today, pads_year)
        ELSE \E d \in ParsesOf(DateSearch(MinOf(ParsingPatterns(text)), text)) :
                Renders(expense_data.val["date"].s, d, pads_year)

\* the Text of the LINE blocks among the first n blocks, in the provider's
\* order, with one space between two consecutive ones
RECURSIVE SpacedLines(_, _)
SpacedLines(blocks, n) ==
    IF n = 0 THEN <<>>
    ELSE IF blocks[n].BlockType # "LINE" THEN SpacedLines(blocks, n - 1)
    ELSE IF \A j \in 1..(n - 1) : blocks[j].BlockType # "LINE" THEN blocks[n].Text
    ELSE SpacedLines(blocks, n - 1) \o <<" ">> \o blocks[n].Text

\* the key ends, case-insensitively, with .txt or .text
IsPlainTextKey(k) ==
    \E x \in {<<".","t","x","t">>, <<".","t","e","x","t">>} :
        Len(k) >= Len(x) /\ lower(SubSeq(k, Len(k) - Len(x) + 1, Len(k))) = x

\* the text the one source of the i-th record holds
SourceText(i) ==
    IF IsPlainTextKey(event.Records[i].key) THEN env[i].body
    ELSE SpacedLines(env[i].blocks, Len(env[i].blocks))

\* C22: the text of a document comes from exactly one source. A key ending in
\* .txt or .text is read from storage and never sent to the OCR provider; any
\* other supported key is sent to the OCR provider and never read from storage,
\* and its text is the Text of the LINE blocks only, in order, joined by single
\* spaces. The raw_text of every record put in the table is that text.
C22_OneTextSource ==
    /\ s3_reads \cap ocr_calls = {}
    /\ \A i \in s3_reads : IsPlainTextKey(event.Records[i].key)
    /\ \A i \in ocr_calls :
        HasSupportedSuffix(event.Records[i].key) /\ ~IsPlainTextKey(event.Records[i].key)
    /\ \A j \in 1..Len(table_ops) :
        LET i == table_ops[j].record
        IN /\ table_ops[j].Item["raw_text"].s = SubSeq(SourceText(i), 1, MinOf({500, Len(SourceText(i))}))
           /\ i \in (IF IsPlainTextKey(event.Records[i].key) THEN s3_reads ELSE ocr_calls)

\* a batch is over in which a record read from storage and a record whose OCR
\* response mixes LINE blocks with other blocks were both put in the table
C22_Witness ==
    /\ response = 200
    /\ \E j \in 1..Len(table_ops) : table_ops[j].record \in s3_reads
    /\ \E j \in 1..Len(table_ops) :
        /\ table_ops[j].record \in ocr_calls
        /\ \E b \in 1..Len(env[table_ops[j].record].blocks) :
            /\ env[table_ops[j].record].blocks[b].BlockType # "LINE"
            /\ env[table_ops[j].record].blocks[b].Text # <<>>

\* C23: the record extract_expense_info returns holds the values the four
\* extractors give for the same text and source reference, the source reference
\* unchanged as s3_key and the first 500 characters of the text (the whole text
\* when it is shorter) as raw_text; a second call, on the same text, returns a
\* record with another expense_id.
C23_RecordAssembled ==
    /\ [](phase \in {"extracted", "extracted_again"} =>
            /\ ~expense_data.raised
            /\ expense_data.val["amount"] = extract_amount(text)
            /\ expense_data.val["category"].s = categorize_expense(text)
            /\ expense_data.val["description"].s = extract_description(text, s3_key)
            /\ expense_data.val["date"] = extract_date(text, today, pads_year).val
            /\ expense_data.val["s3_key"].s = s3_key
            /\ Len(expense_data.val["raw_text"].s) = (IF Len(text) < 500 THEN Len(text) ELSE 500)
            /\ \A i \in 1..Len(expense_data.val["raw_text"].s) :
                    expense_data.val["raw_text"].s[i] = text[i])
    /\ [][phase' = "extracted_again" =>
            expense_data'.val["expense_id"] # expense_data.val["expense_id"]]_vars

\* a second record was assembled from a text of more than 500 characters
C23_Witness ==
    /\ phase = "extracted_again"
    /\ Len(text) > 500
    /\ Len(expense_data.val["raw_text"].s) = 500

\* the put_item calls that completed
CompletedPuts == {j \in 1..Len(table_ops) : table_ops[j].ok}

\* the handler has returned, and not because the service clients failed to start
ReturnedAfterStart == response # 0 /\ ~(response = 500 /\ outcomes = <<>>)

\* C24: with 'Records' in the event the handler returns 200 whatever happens to
\* the documents, and processed_count is the number of put_item calls that
\* completed, between 0 and the number of records; without 'Records' it returns
\* 400 and processes nothing.
C24_StatusAndCount ==
    ReturnedAfterStart =>
        IF event.has_records
        THEN /\ response = 200
             /\ processed_count = Cardinality(CompletedPuts)
             /\ processed_count <= Len(event.Records)
        ELSE /\ response = 400
             /\ table_ops = <<>> /\ s3_reads = {} /\ ocr_calls = {} /\ outcomes = <<>>

\* C25: a text whose only date is a valid date written with a four-digit year,
\* as MM/DD/YYYY, MM-DD-YYYY or YYYY-MM-DD, gives that year, month and day,
\* whatever the year.
C25_FourDigitYearPreserved ==
    \A lead \in Leads, tail \in Tails, shape \in LongYearShapes,
       m \in Months, d \in Days, y \in OldAndNewYears :
        (/\ phase = "extracted"
         /\ ValidDate(y, m, d)
         /\ text = lead \o Shaped(shape, m, d, y) \o tail) =>
            expense_data.val["date"].s = IsoDate(y, m, d)

\* C26: a record returned by extract_expense_info is accepted by
\* validate_expense_data exactly when its amount is above zero and its
\* description is not empty: its id, category and date never get it rejected.
C26_AcceptedIffAmountAndDescription ==
    phase = "round_trip" =>
        (verdict.val = PyTrue <=>
            (PositiveAmount(expense_data.val) /\ expense_data.val["description"].s # <<>>))

\* the filename of the i-th request, when it has one
FilenameOf(i) == requests[i].value.filename.s

\* C27: upload and processing agree on the supported file types. A filename
\* the upload accepts is stored under uploads/<timestamp>_<filename>, a key
\* with a supported suffix, and process_document does not skip the stored
\* object as unsupported; a filename the upload rejects as unsupported would
\* give a key process_document skips.
C27_StagesAgreeOnFileTypes ==
    /\ \A j \in 1..Len(put_object_calls) :
        /\ put_object_calls[j].Key =
              <<"u","p","l","o","a","d","s","/","2","0","2","6","1","1","0","2","_","1","2","0","0","5","8","_">> \o FilenameOf(put_object_calls[j].request)
        /\ HasSupportedSuffix(put_object_calls[j].Key)
    /\ \A i \in 1..Len(outcomes) : outcomes[i] # "unsupported"
    /\ \A i \in 1..Len(uploads) :
        uploads[i].error = "Unsupported file type" =>
            ~IsDocumentKey(<<"u","p","l","o","a","d","s","/","2","0","2","6","1","1","0","2","_","1","2","0","0","5","8","_">> \o FilenameOf(i))

\* an upload whose extension is written in mixed case was stored, notified and
\* saved by process_document
C27_Witness ==
    /\ uploads[1].status = 200
    /\ FilenameOf(1) = <<"P","h","o","t","o",".","P","n","G">>
    /\ response = 200
    /\ outcomes = <<"saved">>

\* the i-th request is an upload answered with status 200
Uploaded(i) == requests[i].method = "POST" /\ uploads[i].status = 200

\* C28: any two uploads answered with status 200 were stored under different
\* keys, so that no put_object call that completed replaced the object of
\* another request.
C28_UploadKeysUnique ==
    /\ \A i, j \in 1..Len(uploads) :
        (i # j /\ Uploaded(i) /\ Uploaded(j)) => uploads[i].s3_key # uploads[j].s3_key
    /\ \A a, b \in 1..Len(put_object_calls) :
        (a # b /\ put_object_calls[a].ok /\ put_object_calls[b].ok) =>
            put_object_calls[a].Key # put_object_calls[b].Key

\* the put_object calls made for the i-th request
PutObjectCalls(i) == {j \in 1..Len(put_object_calls) : put_object_calls[j].request = i}

\* the kinds of request the upload API refuses
EmptyBody(r) == r.method = "POST" /\ r.kind = "empty"
InvalidJson(r) == r.method = "POST" /\ r.kind = "malformed"
HasBothFields(r) ==
    /\ r.method = "POST" /\ r.kind = "json" /\ r.value.t = "object"
    /\ r.value.filename # Absent /\ r.value.content # Absent
MissingField(r) == r.method = "POST" /\ r.kind = "json" /\ ~HasBothFields(r)
UnsupportedExtension(r) ==
    HasBothFields(r) /\ ~(r.value.filename.t = "str" /\ HasSupportedSuffix(r.value.filename.s))
UndecodableContent(r) ==
    /\ HasBothFields(r) /\ ~UnsupportedExtension(r)
    /\ \/ r.value.content.t # "str"
       \/ /\ Len(r.value.content.s) >= 5
          /\ SubSeq(r.value.content.s, 1, 5) = <<"d","a","t","a",":">>
          /\ b64decode(r.value.content).raised

\* the content of the i-th request was never looked at, because the storage
\* client could not be created
ClientFailed(i) ==
    HasBothFields(requests[i]) /\ ~UnsupportedExtension(requests[i]) /\ uploads[i].status = 500

\* C29: a request leads to at most one put_object call, and a completed call
\* only for a request answered with status 200. A preflight, an empty body,
\* invalid JSON, a missing filename or content field, an unsupported extension
\* and undecodable content return without a put_object call, the preflight with
\* status 200 and the others with status 400 (the check of the content comes
\* after the storage client is created, and is not reached when that fails).
C29_WritesOnlyForAcceptedUploads ==
    \A i \in 1..Len(requests) :
        /\ Cardinality(PutObjectCalls(i)) <= 1
        /\ \A j \in PutObjectCalls(i) : put_object_calls[j].ok => uploads[i].status = 200
        /\ uploads[i].pc = "done" =>
            /\ requests[i].method = "OPTIONS" =>
                    PutObjectCalls(i) = {} /\ uploads[i].status = 200
            /\ (\/ EmptyBody(requests[i]) \/ InvalidJson(requests[i])
                \/ MissingField(requests[i]) \/ UnsupportedExtension(requests[i])
                \/ UndecodableContent(requests[i]) /\ ~ClientFailed(i)) =>
                    PutObjectCalls(i) = {} /\ uploads[i].status = 400

\* the date of an item as text, empty when the item has none
DateText(x) == IF x.date = Absent THEN <<>> ELSE x.date.s

\* a <= b in the order of strings
LexLeq(a, b) ==
    \/ Len(a) <= Len(b) /\ SubSeq(b, 1, Len(a)) = a
    \/ \E k \in 1..MinOf({Len(a), Len(b)}) :
        /\ SubSeq(a, 1, k - 1) = SubSeq(b, 1, k - 1)
        /\ Ord(a[k]) < Ord(b[k])

\* the returned item is the scanned one, its amount the same number
SameExpense(returned, scanned) ==
    /\ returned.expense_id = scanned.expense_id
    /\ returned.date = scanned.date
    /\ IF scanned.amount = Absent THEN returned.amount = Absent
       ELSE /\ returned.amount.t = "float"
            /\ returned.amount.n = scanned.amount.n
            /\ returned.amount.e = scanned.amount.e

\* the one-to-one assignments of n positions to n positions
Rearrangements(n) == {f \in [1..n -> 1..n] : \A i, j \in 1..n : f[i] = f[j] => i = j}

\* C30: a listing answered with status 200 holds exactly the items of the scan,
\* none dropped and none twice, latest date first and the items without a date
\* last, and its count is their number; a failed scan, like any other error,
\* is answered with status 500 and no list of expenses.
C30_ListingSortedAndComplete ==
    (listing # NotListed /\ requests[1].method = "GET") =>
        IF listing.statusCode = 200
        THEN /\ ~scan_answer.raises
             /\ listing.has_expenses
             /\ listing.count = Len(listing.expenses)
             /\ Len(listing.expenses) = Len(scan_answer.Items)
             /\ \E f \in Rearrangements(Len(scan_answer.Items)) :
                    \A i \in 1..Len(scan_answer.Items) :
                        SameExpense(listing.expenses[f[i]], scan_answer.Items[i])
             /\ \A i, j \in 1..Len(listing.expenses) :
                    i < j =>
                        /\ LexLeq(DateText(listing.expenses[j]), DateText(listing.expenses[i]))
                        /\ listing.expenses[i].date = Absent => DateText(listing.expenses[j]) = <<>>
        ELSE /\ listing.statusCode = 500
             /\ ~listing.has_expenses
             /\ listing.expenses = <<>>

\* three items were listed, the scan giving the undated one first and the
\* latest one last
C30_Witness ==
    /\ listing.statusCode = 200
    /\ listing.count = 3
    /\ scan_answer.Items[1].date = Absent
    /\ DateText(scan_answer.Items[2]) = <<"2","0","2","4","-","0","1","-","1","5">>
    /\ DateText(scan_answer.Items[3]) = <<"2","0","2","4","-","0","3","-","1","0">>
    /\ listing.expenses[1].expense_id = scan_answer.Items[3].expense_id
    /\ listing.expenses[3].expense_id = scan_answer.Items[1].expense_id

====
